---- MODULE Spec2Model ----
(***************************************************************************)
(* The flow-crawling engine of LoginGPT's login-page detection worker:     *)
(* runCrawler, performFlow, continueFlow and their helpers, as a state     *)
(* machine, together with the pure helpers (deduplicateOptionsWithMapping, *)
(* the variant generation of runCrawler, the oracle reply classification   *)
(* of continueFlow) as operators.                                          *)
(*                                                                         *)
(* Text is a sequence of one-character strings.  Array indices are the     *)
(* source's 0-based numbers; TLA+ sequences hold them 1-based, so element  *)
(* i of a JavaScript array a is a[i + 1].                                  *)
(***************************************************************************)
EXTENDS Integers, Sequences, FiniteSets, TLC

\* ------------------------------------------------------------------ bounds

\* Longest dropdown inventory the enumerator is checked on.
MaxSelects == 3

\* Longest option list of one dropdown the enumerator is checked on.
MaxOptions == 2

\* Longest oracle reply, in symbols, the reply classification is checked on.
MaxReplyLen == 5

\* ------------------------------------------------------------ text helpers

\* JavaScript's undefined (uniqueOptions[g][0] of an empty option list); no
\* option value equals it, option values being sequences of characters.
Undefined == <<"undefined">>

\* The option values the enumerator is checked on: "a" and "a,a".
OptionValues == { <<"a">>, <<"a", ",", "a">> }

RECURSIVE SeqsUpTo(_, _)
\* All sequences over S of length at most n.
SeqsUpTo(S, n) ==
  IF n = 0 THEN { <<>> }
  ELSE LET shorter == SeqsUpTo(S, n - 1)
       IN  shorter \cup { Append(s, x) : s \in { t \in shorter : Len(t) = n - 1 }, x \in S }

RECURSIVE Flatten(_)
\* Concatenation of a sequence of sequences.
Flatten(ss) == IF ss = <<>> THEN <<>> ELSE Head(ss) \o Flatten(Tail(ss))

RECURSIVE SumSeq(_)
\* Sum of a sequence of integers.
SumSeq(ns) == IF ns = <<>> THEN 0 ELSE Head(ns) + SumSeq(Tail(ns))

\* ------------------------------------------- deduplicateOptionsWithMapping

RECURSIVE JSONEscape(_)
\* JSON.stringify's escaping of the characters of one string.
JSONEscape(str) ==
  IF str = <<>> THEN <<>>
  ELSE (IF Head(str) = "\"" THEN <<"\\", "\"">>
        ELSE IF Head(str) = "\\" THEN <<"\\", "\\">>
        ELSE <<Head(str)>>) \o JSONEscape(Tail(str))

\* JSON.stringify of one string: quoted and escaped.
JSONString(str) == <<"\"">> \o JSONEscape(str) \o <<"\"">>

RECURSIVE JSONJoin(_)
\* The elements of an array of strings, each quoted, separated by commas.
JSONJoin(opts) ==
  IF opts = <<>> THEN <<>>
  ELSE IF Len(opts) = 1 THEN JSONString(Head(opts))
  ELSE JSONString(Head(opts)) \o <<",">> \o JSONJoin(Tail(opts))

RECURSIVE UnquotedJoin(_)
\* A key that joins the values with commas and leaves the quotes out.
UnquotedJoin(opts) ==
  IF opts = <<>> THEN <<>>
  ELSE IF Len(opts) = 1 THEN Head(opts)
  ELSE Head(opts) \o <<",">> \o UnquotedJoin(Tail(opts))

\* Mutant of JSONStringify: Array.prototype.join instead of JSON.stringify.
JSONStringifyJoinOnly(opts) == UnquotedJoin(opts)

\* JSON.stringify(opts) of an array of strings: the key of an option list.
JSONStringify(opts) == <<"[">> \o JSONJoin(opts) \o <<"]">>

\* seenKeys.get(key): the 0-based unique index the key was first seen at, or
\* -1 when seenKeys.has(key) is false.  keys[u + 1] is the key of group u.
SeenIndex(keys, key) ==
  IF \E u \in 1..Len(keys) : keys[u] = key
  THEN (CHOOSE u \in 1..Len(keys) : keys[u] = key) - 1
  ELSE -1

\* One turn of optionsArray.forEach((opts, idx) => ...): acc holds
\* uniqueOptions, mapping and the keys of seenKeys in insertion order.
DedupStep(acc, opts, idx) ==
  LET key == JSONStringify(opts)
      uniqueIndex == SeenIndex(acc.keys, key)
  IN  IF uniqueIndex >= 0
      THEN [acc EXCEPT !.mapping[uniqueIndex + 1] = Append(@, idx)]
      ELSE [uniqueOptions |-> Append(acc.uniqueOptions, opts),
            mapping       |-> Append(acc.mapping, <<idx>>),
            keys          |-> Append(acc.keys, key)]

RECURSIVE DedupFrom(_, _, _)
\* The forEach over optionsArray from 0-based index idx on.
DedupFrom(acc, optionsArray, idx) ==
  IF idx >= Len(optionsArray) THEN acc
  ELSE DedupFrom(DedupStep(acc, optionsArray[idx + 1], idx), optionsArray, idx + 1)

\* deduplicateOptionsWithMapping(optionsArray): {uniqueOptions, mapping}.
deduplicateOptionsWithMapping(optionsArray) ==
  LET acc == DedupFrom([uniqueOptions |-> <<>>, mapping |-> <<>>, keys |-> <<>>],
                       optionsArray, 0)
  IN  [uniqueOptions |-> acc.uniqueOptions, mapping |-> acc.mapping]

\* ---------------------------------------- variant generation in runCrawler

\* uniqueOptions.map(options => options[0]).
defaultCombination(uniqueOpts) ==
  [g \in 1..Len(uniqueOpts) |->
     IF uniqueOpts[g] = <<>> THEN Undefined ELSE uniqueOpts[g][1]]

\* Mutant of IsVariation: the comparison with the default left out, so the
\* default value yields a variant too.
IsVariationAlways(option, default) == TRUE

\* option !== defaultCombination[groupIndex].
IsVariation(option, default) == option # default

RECURSIVE GroupFlows(_, _, _)
\* options.forEach(option => ...) for group groupIndex (0-based): one
\* variation per option that is not the default, others kept at default.
GroupFlows(options, groupIndex, default) ==
  IF options = <<>> THEN <<>>
  ELSE (IF IsVariation(Head(options), default[groupIndex + 1])
        THEN << [default EXCEPT ![groupIndex + 1] = Head(options)] >>
        ELSE <<>>) \o GroupFlows(Tail(options), groupIndex, default)

\* The flows array built by uniqueOptions.forEach((options, groupIndex) => ...).
GenerateFlows(uniqueOpts) ==
  LET default == defaultCombination(uniqueOpts)
  IN  Flatten([g \in 1..Len(uniqueOpts) |-> GroupFlows(uniqueOpts[g], g - 1, default)])

\* --------------------------------- oracle reply classification (continueFlow)

\* The fixed texts of the click-oracle protocol, each held as one symbol.
NoLoginButtonText == <<"No login button detected">>

ErrorNoElementText == <<"Error: No relevant element detected.">>

NoPopupsText == <<"No popups found">>

\* The literal "Click Point:" of the reply pattern, held as one symbol.
ClickPointLiteral == "Click Point:"

\* The line terminator the oracle ends every reply with.
Newline == "\n"

IsSpace(ch) == ch \in {" ", Newline}

IsDigit(ch) == ch \in {"0", "1", "2", "3", "4", "5", "6", "7", "8", "9"}

DigitValue(ch) ==
  CASE ch = "0" -> 0 [] ch = "1" -> 1 [] ch = "2" -> 2 [] ch = "3" -> 3
    [] ch = "4" -> 4 [] ch = "5" -> 5 [] ch = "6" -> 6 [] ch = "7" -> 7
    [] ch = "8" -> 8 [] ch = "9" -> 9

RECURSIVE TrimStart(_)
TrimStart(text) ==
  IF text # <<>> /\ IsSpace(Head(text)) THEN TrimStart(Tail(text)) ELSE text

RECURSIVE TrimEnd(_)
TrimEnd(text) ==
  IF text # <<>> /\ IsSpace(text[Len(text)])
  THEN TrimEnd(SubSeq(text, 1, Len(text) - 1)) ELSE text

\* String.prototype.trim.
Trim(text) == TrimEnd(TrimStart(text))

RECURSIVE SkipSpaces(_, _)
\* \s* from position k: the first position that holds no whitespace.
SkipSpaces(text, k) ==
  IF k <= Len(text) /\ IsSpace(text[k]) THEN SkipSpaces(text, k + 1) ELSE k

RECURSIVE SkipDigits(_, _)
\* \d* from position k (greedy): the first position that holds no digit.
SkipDigits(text, k) ==
  IF k <= Len(text) /\ IsDigit(text[k]) THEN SkipDigits(text, k + 1) ELSE k

RECURSIVE NumberOf(_, _)
\* Number(digits), read left to right; acc is the value so far.
NumberOf(digits, acc) ==
  IF digits = <<>> THEN acc
  ELSE NumberOf(Tail(digits), acc * 10 + DigitValue(Head(digits)))

\* The regular expression /Click Point:\s*(\d+),\s*(\d+)/ tried at position
\* k: the two captured groups, or no match.
MatchAt(text, k) ==
  IF k > Len(text) \/ text[k] # ClickPointLiteral THEN [ok |-> FALSE, x |-> -1, y |-> -1]
  ELSE LET xs == SkipSpaces(text, k + 1)
           xe == SkipDigits(text, xs)
           ys == SkipSpaces(text, xe + 1)
           ye == SkipDigits(text, ys)
       IN  IF xe > xs /\ xe <= Len(text) /\ text[xe] = "," /\ ye > ys
           THEN [ok |-> TRUE,
                 x  |-> NumberOf(SubSeq(text, xs, xe - 1), 0),
                 y  |-> NumberOf(SubSeq(text, ys, ye - 1), 0)]
           ELSE [ok |-> FALSE, x |-> -1, y |-> -1]

\* clickPosition.match(/Click Point:\s*(\d+),\s*(\d+)/): the leftmost match
\* anywhere in the text (the pattern is not anchored).
ClickPointMatch(text) ==
  IF \E k \in 1..Len(text) : MatchAt(text, k).ok
  THEN MatchAt(text, CHOOSE k \in 1..Len(text) :
                       /\ MatchAt(text, k).ok
                       /\ \A j \in 1..(k - 1) : ~MatchAt(text, j).ok)
  ELSE [ok |-> FALSE, x |-> -1, y |-> -1]

Outcome(tag, x, y) == [tag |-> tag, x |-> x, y |-> y]

\* The branch continueFlow takes on the text read from the socket
\* (data.toString().trim()), as a ClickOutcome.
ClassifyReply(data) ==
  LET text  == Trim(data)
      match == ClickPointMatch(text)
  IN  IF text = NoLoginButtonText \/ text = ErrorNoElementText
        THEN Outcome("NoElement", -1, -1)
      ELSE IF text = NoPopupsText THEN Outcome("NoPopup", -1, -1)
      ELSE IF ~match.ok THEN Outcome("Malformed", -1, -1)
      ELSE Outcome("Click", match.x, match.y)

RECURSIVE DigitsOf(_)
\* The decimal digits of a non-negative integer (template literal `${n}`).
DigitsOf(n) ==
  LET d == <<"0", "1", "2", "3", "4", "5", "6", "7", "8", "9">>[(n % 10) + 1]
  IN  IF n < 10 THEN <<d>> ELSE Append(DigitsOf(n \div 10), d)

\* const positionKey = `${x},${y}`.
positionKey(x, y) == DigitsOf(x) \o <<",">> \o DigitsOf(y)

\* ------------------------------------------------------------- the state

\* const CLICK_LIMIT = 5 (runCrawler).
CLICK_LIMIT == 5

\* truncateString's default maxLength.
MaxLength == 200

\* Most connection refusals explored before the oracle server accepts.
MaxRefusals == 2

\* Longest time, in seconds, a connection attempt is explored to take.
MaxAttemptTime == 1

\* const retryInterval = 1000, in seconds.
RetryInterval == 1

\* Most classification requests left unsettled at one time.
MaxPending == 2

\* Most "No popups found" replies explored in one flow.
MaxNoPopups == 2

\* Flows of a crawl explored against every oracle reply and every failure;
\* a crawl with more flows is explored against a cooperative environment.
FullFlows == 2

\* detectNavigationOrNewTab: const timeout = 5000 (milliseconds).
ObserverTimeout == 5000

\* The milliseconds that pass in one step of the observer's clock.
TimeStep == 2500

\* The clock of an observer is followed up to this many milliseconds.
MaxObserverTime == 7500

\* No click position / no element at the point (JavaScript's null).
NullPosition == <<>>

\* Markup is a run of len copies of one character, followed by "..." when
\* dots holds; NullHTML is JavaScript's null.
NullHTML == [mark |-> "null", len |-> 0, dots |-> FALSE]

HTML(mark, len) == [mark |-> mark, len |-> len, dots |-> FALSE]

\* currentElementHTML of a turn whose page.evaluate threw: never assigned.
UnassignedHTML == [mark |-> "unassigned", len |-> 0, dots |-> FALSE]

\* The markup page.evaluate may find at a click point.
ElementHTMLs == { HTML("a", 10), HTML("b", 201) }

\* The length of '...'.
EllipsisLength == 3

\* The number of characters of a markup string.
StoredLength(str) == str.len + (IF str.dots THEN EllipsisLength ELSE 0)

\* truncateString(str): str.slice(0, maxLength) + '...' when it is longer.
truncateString(str) ==
  IF str.len > MaxLength THEN [mark |-> str.mark, len |-> MaxLength, dots |-> TRUE]
  ELSE str

\* The click positions the oracle names, in order of first appearance in a
\* flow: the keys of <<1, 11>> and <<11, 1>> differ by the separator only.
Positions == << <<1, 11>>, <<11, 1>>, <<2, 3>>, <<3, 2>>, <<0, 7>>, <<7, 0>> >>

\* The reply line "Click Point: x, y".
ClickText(p) ==
  <<ClickPointLiteral, " ">> \o DigitsOf(p[1]) \o <<",", " ">> \o DigitsOf(p[2])

\* The dropdown inventories a crawled page may expose.  The last one has 22
\* distinct option values "a", "aa", ... in one dropdown.
CrawlInventories ==
  { <<>>,
    << << <<"a">> >> >>,
    << << <<"a">>, <<"b">> >> >>,
    << << <<"a">>, <<"b">> >>, << <<"a">>, <<"b">> >> >>,
    << << <<"a">>, <<"b">>, <<"a", ",", "a">> >> >>,
    << [k \in 1..22 |-> [j \in 1..k |-> "a"]] >> }

VARIABLES
  pc,                 \* position of runCrawler
  retryCount,         \* connectSocketWithRetry: connection attempts made
  connecting,         \* client.connect is under way
  failures,           \* connection attempts refused
  now,                \* seconds since connectSocketWithRetry was called
  attemptAt,          \* time of the last tryConnect (-1: none yet)
  failedAt,           \* time of the last refusal (-1: none, or retried since)
  errorListeners,     \* 'error' listeners registered on the client socket
  retryTimers,        \* setTimeout(tryConnect, retryInterval) timers pending
  client,             \* the oracle socket: "none", "connected", "dropped",
                      \* "closed"
  browser,            \* the browsing session: "none", "open", "closed"
  browserCloses,      \* times browser.close() has run
  promisesDeclared,   \* the assignment classificationPromises = [] has run
  pending,            \* classification requests dispatched and not settled
  rejected,           \* runCrawler's promise rejected (an error left it)
  pageSelects,        \* the option lists the crawled page exposes
  selectOptions,      \* runCrawler: the inventory read from the page
  uniqueOptions,      \* runCrawler: deduplicated option lists
  mapping,            \* runCrawler: original indices of each unique list
  flows,              \* runCrawler: the variants
  i,                  \* runCrawler: index of the flow loop
  flowsRun,           \* performFlow invocations made
  fpc,                \* position of performFlow / continueFlow
  selectCombination,  \* performFlow: the variant (NoCombination: null)
  selPos,             \* performFlow: next (group, index) pair to assign
  assigned,           \* performFlow: <<index, value>> of each select() made
  selectFailed,       \* performFlow: a select() returned no selected value
  staleSelects,       \* apply_select_options: selectElements, a constant of
                      \* the callback, are handles of a page closed since
                      \* page.$$('select')
  flowError,          \* an error reached the catch block of performFlow
  pfPage,             \* performFlow's page: "none", "open", "closed"
  cfSwitched,         \* continueFlow's page is a new one, not performFlow's
  leakedPages,        \* pages of this flow still open and referenced by nobody
  actions,            \* the Action list of the flow
  clickedPositions,   \* continueFlow: keys of the positions accepted
  previousElementHTML,
  currentElementHTML, \* the markup page.evaluate returned in this iteration
  shouldBreakLoop,
  clickCount,
  screenshotIndex,
  screenshotPath,     \* index n of the current page_<n>.png (0: none yet)
  clickPosition,      \* the text last read from the oracle socket
  outcome,            \* its classification
  iterations,         \* oracle-loop iterations started in this flow
  queried,            \* the screenshot the last client.write named (0: none)
  received,           \* oracle replies this flow has consumed
  noPopups,           \* of which answered "No popups found"
  clicks,             \* page.mouse.click calls made in this flow
  written,            \* what this flow has written to its JSON file
  wire,               \* the line the oracle sent in answer to the last query
  delivered,          \* symbols of it the socket has emitted in 'data' events
  observing,          \* detectNavigationOrNewTab: "idle", "waiting", or its
                      \* result "page", "new", "null"
  targetListeners,    \* 'targetcreated' listeners registered on the browser
  timeoutId,          \* the observer's timer is armed
  elapsed,            \* milliseconds since the observer was called
  newTab,             \* the target created meanwhile: "none", "ignored", or
                      \* the opener ("page", "other") of the one being adopted
  broughtToFront,     \* targetListener's newPage.bringToFront() has run
  fileWrites,         \* fileWrites[n]: times page_<n>.png of this flow's
                      \* directory has been written
  orphaned            \* a classification request's connection was closed by
                      \* the server before any reply

connectVars == <<retryCount, connecting, failures, now, attemptAt, failedAt,
                 errorListeners, retryTimers>>

crawlVars == <<pc, connectVars, client, browser, browserCloses, promisesDeclared,
               rejected, pageSelects>>

enumVars == <<selectOptions, uniqueOptions, mapping, flows>>

loopVars == <<i, flowsRun>>

classVars == <<pending, orphaned>>

selectVars == <<selectCombination, selPos, assigned, selectFailed, staleSelects,
                flowError>>

pageVars == <<pfPage, cfSwitched, leakedPages>>

traceVars == <<actions, written>>

oracleVars == <<clickPosition, outcome, iterations, noPopups, queried, received>>

clickVars == <<clickedPositions, previousElementHTML, currentElementHTML,
               shouldBreakLoop, clickCount, clicks>>

shotVars == <<screenshotIndex, screenshotPath>>

wireVars == <<wire, delivered>>

observerVars == <<observing, targetListeners, timeoutId, elapsed, newTab,
                  broughtToFront>>

fileVars == <<fileWrites>>

ioVars == <<wireVars, observerVars, fileVars>>

flowVars == <<selectVars, pageVars, traceVars, oracleVars, clickVars, shotVars>>

vars == <<crawlVars, enumVars, loopVars, classVars, fpc, flowVars, ioVars>>

\* selectCombination of a flow run without a variant (null): no variant is
\* empty, runCrawler building variants for a non-empty inventory only.
NoCombination == <<>>

NoOutcome == Outcome("none", -1, -1)

\* connectSocketWithRetry is not running: its locals do not exist.
ConnectIdle ==
  /\ retryCount = 0
  /\ connecting = FALSE
  /\ failures = 0
  /\ now = 0
  /\ attemptAt = -1
  /\ failedAt = -1
  /\ errorListeners = 0
  /\ retryTimers = 0

\* Nothing on the socket, no observer at work, no screenshot file yet.
IoIdle ==
  /\ orphaned = FALSE
  /\ wire = <<>>
  /\ delivered = 0
  /\ observing = "idle"
  /\ targetListeners = 0
  /\ timeoutId = FALSE
  /\ elapsed = 0
  /\ newTab = "none"
  /\ broughtToFront = FALSE
  /\ fileWrites = <<>>

\* The flow-local state before performFlow is entered.
FlowReset ==
  /\ selectCombination = NoCombination
  /\ selPos = 1
  /\ assigned = <<>>
  /\ selectFailed = FALSE
  /\ staleSelects = FALSE
  /\ flowError = FALSE
  /\ pfPage = "none"
  /\ cfSwitched = FALSE
  /\ leakedPages = 0
  /\ actions = <<>>
  /\ written = <<>>
  /\ clickedPositions = {}
  /\ previousElementHTML = NullHTML
  /\ currentElementHTML = NullHTML
  /\ shouldBreakLoop = FALSE
  /\ clickCount = 0
  /\ clicks = 0
  /\ screenshotIndex = 1
  /\ screenshotPath = 0
  /\ clickPosition = <<>>
  /\ outcome = NoOutcome
  /\ iterations = 0
  /\ noPopups = 0
  /\ queried = 0
  /\ received = 0

\* The state when main calls runCrawler(url).
Init ==
  /\ pc = "connect"
  /\ ConnectIdle
  /\ client = "none"
  /\ browser = "none"
  /\ browserCloses = 0
  /\ promisesDeclared = FALSE
  /\ pending = 0
  /\ rejected = FALSE
  /\ pageSelects \in CrawlInventories
  /\ selectOptions = <<>>
  /\ uniqueOptions = <<>>
  /\ mapping = <<>>
  /\ flows = <<>>
  /\ i = 0
  /\ flowsRun = 0
  /\ fpc = "idle"
  /\ FlowReset
  /\ IoIdle

\* ------------------------------------------------ connectSocketWithRetry

\* A faulty RetryTime: the retry is made at once.
RetryTimeAtOnce(t) == t

\* The time of the retry handleError schedules for a refusal at time t:
\* setTimeout(tryConnect, retryInterval).
RetryTime(t) == t + RetryInterval

\* tryConnect: the first call, or the call the timer makes;
\* client.once('error', handleError) and client.connect.
TryConnect ==
  /\ pc = "connect"
  /\ ~connecting
  /\ \/ retryCount = 0
     \/ failedAt # -1 /\ now = RetryTime(failedAt)
  /\ retryCount' = retryCount + 1
  /\ connecting' = TRUE
  /\ attemptAt' = now
  /\ failedAt' = -1
  /\ errorListeners' = errorListeners + 1
  /\ retryTimers' = 0
  /\ UNCHANGED <<pc, failures, now, client, browser, browserCloses, promisesDeclared,
                 rejected, pageSelects, enumVars, loopVars, classVars, fpc, flowVars>>
  /\ UNCHANGED ioVars

\* Time passes while an attempt is under way or the retry timer runs.
Tick ==
  /\ pc = "connect"
  /\ \/ connecting /\ now < attemptAt + MaxAttemptTime
     \/ ~connecting /\ failedAt # -1 /\ now < RetryTime(failedAt)
  /\ now' = now + 1
  /\ UNCHANGED <<errorListeners, retryTimers>>
  /\ UNCHANGED <<pc, retryCount, connecting, failures, attemptAt, failedAt, client,
                 browser, browserCloses, promisesDeclared, rejected, pageSelects,
                 enumVars, loopVars, classVars, fpc, flowVars>>
  /\ UNCHANGED ioVars

\* The attempt is refused: handleError, a once-listener, is taken off as it
\* is called; it clears the timer and schedules the next tryConnect.
ConnectRefused ==
  /\ pc = "connect"
  /\ connecting
  /\ failures < MaxRefusals
  /\ failures' = failures + 1
  /\ connecting' = FALSE
  /\ failedAt' = now
  /\ errorListeners' = errorListeners - 1
  /\ retryTimers' = 1
  /\ UNCHANGED <<pc, retryCount, now, attemptAt, client, browser, browserCloses,
                 promisesDeclared, rejected, pageSelects, enumVars, loopVars,
                 classVars, fpc, flowVars>>
  /\ UNCHANGED ioVars

\* The attempt is accepted: connectSocketWithRetry returns the client.
Connected ==
  /\ pc = "connect"
  /\ connecting
  /\ connecting' = FALSE
  /\ client' = "connected"
  /\ pc' = "launch"
  /\ errorListeners' = errorListeners - 1  \* client.removeListener
  /\ UNCHANGED retryTimers
  /\ UNCHANGED <<retryCount, failures, now, attemptAt, failedAt, browser,
                 browserCloses, promisesDeclared, rejected, pageSelects, enumVars,
                 loopVars, classVars, fpc, flowVars>>
  /\ UNCHANGED ioVars

\* ------------------------------------------------------------- runCrawler

\* A crawl with many flows is explored against an oracle that finds no
\* element and a browser that does not fail.
Cooperative == Len(flows) > FullFlows

\* puppeteer.launch and the cleanup of the output directory.
LaunchBrowser ==
  /\ pc = "launch"
  /\ \/ /\ browser' = "open"
        /\ pc' = "enumerate"
     \/ /\ browser' = browser          \* launch throws: caught at line 1015
        /\ pc' = "finally"
  /\ retryCount' = 0               \* connectSocketWithRetry's locals are gone
  /\ connecting' = FALSE
  /\ failures' = 0
  /\ now' = 0
  /\ attemptAt' = -1
  /\ failedAt' = -1
  /\ errorListeners' = 0
  /\ retryTimers' = 0
  /\ UNCHANGED <<client, browserCloses, promisesDeclared, rejected,
                 pageSelects, enumVars, loopVars, classVars, fpc, flowVars>>
  /\ UNCHANGED ioVars

\* The throwaway page: newPage, goto, getSelectOptions, close; then the
\* assignment classificationPromises = [].
EnumerateSelects ==
  /\ pc = "enumerate"
  /\ \/ /\ selectOptions' = pageSelects
        /\ promisesDeclared' = TRUE
        /\ pc' = "branch"
     \/ /\ UNCHANGED <<selectOptions, promisesDeclared>>   \* newPage, goto or
        /\ pc' = "finally"                      \* getSelectOptions throws
  /\ UNCHANGED <<connectVars, client, browser, browserCloses, rejected, pageSelects,
                 uniqueOptions, mapping, flows, loopVars, classVars, fpc, flowVars>>
  /\ UNCHANGED ioVars

\* if (selectOptions.length === 0) ... else deduplicateOptionsWithMapping.
Deduplicate ==
  /\ pc = "branch"
  /\ \/ /\ Len(selectOptions) = 0
        /\ pc' = "flows"
        /\ UNCHANGED <<uniqueOptions, mapping>>
     \/ /\ Len(selectOptions) # 0
        /\ LET r == deduplicateOptionsWithMapping(selectOptions)
           IN  /\ uniqueOptions' = r.uniqueOptions
               /\ mapping' = r.mapping
        /\ pc' = "generate"
  /\ UNCHANGED <<connectVars, client, browser, browserCloses, promisesDeclared,
                 rejected, pageSelects, selectOptions, flows, loopVars, classVars,
                 fpc, flowVars>>
  /\ UNCHANGED ioVars

\* The default combination and the flows built from it.
BuildFlows ==
  /\ pc = "generate"
  /\ flows' = GenerateFlows(uniqueOptions)
  /\ pc' = "flows"
  /\ UNCHANGED <<connectVars, client, browser, browserCloses, promisesDeclared,
                 rejected, pageSelects, selectOptions, uniqueOptions, mapping,
                 loopVars, classVars, fpc, flowVars>>
  /\ UNCHANGED ioVars


\* for (let i = 0; i < flows.length; i++).
FlowLoopContinues(idx, fl) == idx < Len(fl)

\* A faulty MoreFlows: the branch of the empty inventory left out.
MoreFlowsLoopOnly == FlowLoopContinues(i, flows)

\* Whether runCrawler has another performFlow call to make: the single call
\* of the no-select branch, or the next turn of the loop over flows.
MoreFlows ==
  IF Len(selectOptions) = 0 THEN i = 0 ELSE FlowLoopContinues(i, flows)

\* The flow-local state once performFlow has returned (and before it is
\* entered): its variables are out of scope.
FlowLocalsGone ==
  /\ selectCombination' = NoCombination
  /\ selPos' = 1
  /\ assigned' = <<>>
  /\ selectFailed' = FALSE
  /\ staleSelects' = FALSE
  /\ flowError' = FALSE
  /\ pfPage' = "none"
  /\ cfSwitched' = FALSE
  /\ leakedPages' = 0
  /\ actions' = <<>>
  /\ written' = <<>>
  /\ clickedPositions' = {}
  /\ previousElementHTML' = NullHTML
  /\ currentElementHTML' = NullHTML
  /\ shouldBreakLoop' = FALSE
  /\ clickCount' = 0
  /\ clicks' = 0
  /\ screenshotIndex' = 1
  /\ screenshotPath' = 0
  /\ clickPosition' = <<>>
  /\ outcome' = NoOutcome
  /\ iterations' = 0
  /\ noPopups' = 0
  /\ queried' = 0
  /\ received' = 0
  /\ fileWrites' = <<>>

\* runCrawler calls performFlow(..., selectCombination, mapping, i, ...).
StartFlow ==
  /\ pc = "flows"
  /\ fpc = "idle"
  /\ MoreFlows
  /\ flowsRun' = flowsRun + 1
  /\ fpc' = "open"
  /\ selectCombination' = IF Len(selectOptions) # 0 /\ i < Len(flows)
                           THEN flows[i + 1]
                           ELSE NoCombination    \* null, or flows[i] undefined
  /\ UNCHANGED <<crawlVars, enumVars, i, classVars, selPos, assigned, selectFailed, staleSelects,
                 flowError, pageVars, traceVars, oracleVars, clickVars, shotVars>>
  /\ UNCHANGED ioVars

\* The flows are over: control reaches the finally block of runCrawler.
FlowsDone ==
  /\ pc = "flows"
  /\ fpc = "idle"
  /\ ~MoreFlows
  /\ pc' = "finally"
  /\ UNCHANGED <<connectVars, client, browser, browserCloses, promisesDeclared,
                 rejected, pageSelects, enumVars, loopVars, classVars, fpc, flowVars>>
  /\ UNCHANGED ioVars

\* finally: if (browser) { await Promise.all(classificationPromises);
\* await browser.close() }.  classificationPromises is a global that exists
\* only once line 976 has run: reading it before is a ReferenceError, which
\* leaves the finally block.
CloseBrowser ==
  /\ pc = "finally"
  /\ \/ /\ browser = "open"
        /\ ~promisesDeclared
        /\ rejected' = TRUE
        /\ pc' = "done"
        /\ UNCHANGED <<browser, browserCloses>>
     \/ /\ browser = "open"
        /\ promisesDeclared
        /\ pending = 0
        /\ browser' = "closed"
        /\ browserCloses' = browserCloses + 1
        /\ pc' = "closeClient"
        /\ UNCHANGED rejected
     \/ /\ browser # "open"
        /\ pc' = "closeClient"
        /\ UNCHANGED <<browser, browserCloses, rejected>>
  /\ UNCHANGED <<connectVars, client, promisesDeclared, pageSelects, enumVars,
                 loopVars, classVars, fpc, flowVars>>
  /\ UNCHANGED ioVars

\* finally: if (client) { client.end(); client.destroy() }.
CloseClient ==
  /\ pc = "closeClient"
  /\ client' = IF client = "connected" THEN "closed" ELSE client
  /\ pc' = "done"
  /\ UNCHANGED <<connectVars, browser, browserCloses, promisesDeclared, rejected,
                 pageSelects, enumVars, loopVars, classVars, fpc, flowVars>>
  /\ UNCHANGED ioVars

\* The ways classifyScreenshot's promise settles: resolve(response) on the
\* first 'data' event, reject on 'error', reject on the 30-second timeout.
ClassificationOutcomes == {"positive", "negative", "error", "timeout"}

\* The classification server closes the connection before any reply: the
\* socket has handlers for 'data', 'error' and 'timeout' only, and a closed
\* socket has no idle timer left, so none of them runs for this request.
ServerClosesUnanswered ==
  /\ pending > 0
  /\ ~orphaned
  /\ pc \notin {"done", "crashed"}
  /\ orphaned' = TRUE
  /\ UNCHANGED pending
  /\ UNCHANGED <<crawlVars, enumVars, loopVars, fpc, flowVars>>
  /\ UNCHANGED ioVars

\* A faulty OnClassified: a positive classification empties the trace.
OnClassifiedPositive(classification, acts) ==
  IF classification = "positive" THEN <<>> ELSE acts

\* The handlers chained on the request, .then(() => console.log(...)) and
\* .catch(err => console.error(...)): they log, the flow's trace is as it was.
OnClassified(classification, acts) == acts

\* A classification request settles: a response, a socket error or the
\* 30-second timeout (classifyScreenshot); the request whose connection the
\* server closed is not one that can.
ClassificationSettles ==
  /\ pending > (IF orphaned THEN 1 ELSE 0)
  /\ pc \notin {"done", "crashed"}
  /\ pending' = pending - 1
  /\ \E classification \in ClassificationOutcomes :
       actions' = OnClassified(classification, actions)
  /\ UNCHANGED orphaned
  /\ UNCHANGED <<crawlVars, enumVars, loopVars, fpc, selectVars, pageVars,
                 written, oracleVars, clickVars, shotVars>>
  /\ UNCHANGED ioVars

\* ------------------------------------------------------------ performFlow

\* The entry {selectOptions: ...} that opens a trace.
SelectAction(isNull, fullMapping) ==
  [kind |-> "select", isNull |-> isNull, selectOptions |-> fullMapping]

\* A faulty ClickAction: the step is the number of clicks made so far.
ClickActionStepOfClicks(step, position, html, screenshot, note) ==
  [kind |-> "click", step |-> clickCount, clickPosition |-> position,
   elementHTML |-> html, screenshot |-> screenshot, note |-> note]

\* A click step or terminal entry of a trace ("" : no note).  The url field
\* (the page's address at the screenshot) decides nothing and is left out.
ClickAction(step, position, html, screenshot, note) ==
  [kind |-> "click", step |-> step, clickPosition |-> position,
   elementHTML |-> html, screenshot |-> screenshot, note |-> note]

\* A faulty SelectPairs: only the first dropdown of each group.
SelectPairsFirstOnly(map) == [u \in 1..Len(map) |-> <<u - 1, map[u][1]>>]

\* The (uniqueIndex, origIdx) pairs in the order of the two nested loops of
\* apply_select_options.
SelectPairs(map) ==
  Flatten([u \in 1..Len(map) |-> [k \in 1..Len(map[u]) |-> <<u - 1, map[u][k]>>]])

\* The dropdowns the page of a flow may show beyond those enumerated.
ExtraSelects == 1

\* A slot of the array new Array(n) that was never assigned.
EmptySlot == [identifier |-> <<>>, value |-> <<>>, slot |-> "empty"]

\* buildFullSelectMapping: an array as long as selectIdentifiers (the
\* dropdowns of the flow's page); entry i of a mapped dropdown holds its
\* identifier (the fallback `select_${i}`, the page naming none) and its
\* group's value.
buildFullSelectMapping(map, uniqueCombination, selectIdentifiers) ==
  LET pairs == SelectPairs(map)
  IN  [k \in 1..selectIdentifiers |->
         IF \E n \in 1..Len(pairs) : pairs[n][2] = k - 1
         THEN LET pr == CHOOSE q \in { pairs[n] : n \in 1..Len(pairs) } : q[2] = k - 1
              IN  [identifier |-> <<"select_", k - 1>>,
                   value |-> uniqueCombination[pr[1] + 1],
                   slot |-> "filled"]
         ELSE EmptySlot]

\* A property JSON.stringify left out, its value being undefined.
Absent == <<"absent">>

\* null as an element of a parsed array.
NullEntry == [identifier |-> <<>>, value |-> <<>>, slot |-> "null"]

\* JSON.stringify of an element of selectOptions: an empty slot is written
\* as null, a property whose value is undefined is left out.
StringifyEntry(entry) ==
  IF entry.slot = "empty" THEN NullEntry
  ELSE IF entry.value = Undefined THEN [entry EXCEPT !.value = Absent]
  ELSE entry

\* JSON.stringify(actions, null, 2): the entries in order; numbers, strings
\* and nulls as they are, an absent note absent.
StringifyActions(acts) ==
  [n \in 1..Len(acts) |->
     IF acts[n].kind = "select"
     THEN [acts[n] EXCEPT !.selectOptions =
             [k \in 1..Len(@) |-> StringifyEntry(@[k])]]
     ELSE acts[n]]

\* JSON.parse of the file: every value of the text as the value it denotes.
ParseActions(json) == [n \in 1..Len(json) |-> json[n]]

\* browser.newPage, the page set-up and page.goto(url).
OpenPage ==
  /\ fpc = "open"
  /\ \/ /\ pfPage' = "open"
        /\ IF selectCombination # NoCombination /\ Len(mapping) > 0
           THEN fpc' = "select" /\ actions' = <<>>
           ELSE fpc' = "fill" /\ actions' = <<SelectAction(TRUE, <<>>)>>
        /\ UNCHANGED flowError
     \/ /\ ~Cooperative                 \* browser.newPage throws
        /\ pfPage' = "none"
        /\ fpc' = "finally"
        /\ flowError' = TRUE
        /\ UNCHANGED actions
     \/ /\ ~Cooperative                 \* page.goto throws
        /\ pfPage' = "open"
        /\ fpc' = "finally"
        /\ flowError' = TRUE
        /\ UNCHANGED actions
  /\ UNCHANGED <<crawlVars, enumVars, loopVars, classVars, selectCombination, selPos,
                 assigned, selectFailed, staleSelects, cfSwitched, leakedPages, written, oracleVars,
                 clickVars, shotVars>>
  /\ UNCHANGED ioVars

\* selectElement.select(value) can act only through a handle whose page is
\* open: on the handle of a closed page it throws.
SelectableHandle(stale) == ~stale

\* selectElement.select(value) for the next dropdown of the variant, through
\* the handles page.$$('select') returned before the loops.
SelectOption ==
  /\ fpc = "select"
  /\ LET pr    == SelectPairs(mapping)[selPos]
         value == selectCombination[pr[1] + 1]
     IN  \/ /\ SelectableHandle(staleSelects)
            /\ assigned' = Append(assigned, <<pr[2], value>>)
            /\ fpc' = "selectNav"
            /\ UNCHANGED <<selectFailed, flowError>>
         \/ /\ ~Cooperative             \* selectedValues.length === 0: return
            /\ SelectableHandle(staleSelects)
            /\ selectFailed' = TRUE     \* from the apply_select_options callback
            /\ fpc' = "fill"
            /\ UNCHANGED <<assigned, flowError>>
         \/ /\ ~Cooperative             \* select throws: a stale handle, or the
            /\ fpc' = "finally"         \* handle of a page closed at line 448
            /\ flowError' = TRUE
            /\ UNCHANGED <<assigned, selectFailed>>
  /\ UNCHANGED <<crawlVars, enumVars, loopVars, classVars, selectCombination, selPos,
                 staleSelects, pageVars, traceVars, oracleVars, clickVars, shotVars>>
  /\ UNCHANGED ioVars

\* ----------------------------------------------- detectNavigationOrNewTab

\* A faulty TimerArmed: the timeout is never set.
TimerNeverArmed == FALSE

\* timeoutId = setTimeout(..., timeout) has run when the promise's executor
\* returns.
TimerArmed == TRUE

\* A faulty ListenersAfterOff: browser.off removes nothing.
ListenersKept(n) == n

\* browser.off('targetcreated', targetListener) with the listener registered.
ListenersAfterOff(n) == n - 1

\* target.opener() === page.target().
OpenerMatches(opener) == opener = "page"

\* cleanup(): the timer is cleared and the listener taken off the browser.
cleanup ==
  /\ timeoutId' = FALSE
  /\ targetListeners' = ListenersAfterOff(targetListeners)

\* The observer is called after a select() or a click: waitForNavigation is
\* started, the listener registered and the timer set.
StartObserver ==
  /\ fpc \in {"selectNav", "nav"}
  /\ observing = "idle"
  /\ observing' = "waiting"
  /\ targetListeners' = targetListeners + 1
  /\ timeoutId' = TimerArmed
  /\ elapsed' = 0
  /\ newTab' = "none"
  /\ broughtToFront' = FALSE
  /\ UNCHANGED <<crawlVars, enumVars, loopVars, classVars, fpc, flowVars, wireVars,
                 fileVars>>

\* Time passes while the observer waits, up to the moment its timer is due.
ObserverTick ==
  /\ observing = "waiting"
  /\ elapsed < MaxObserverTime
  /\ ~(timeoutId /\ elapsed >= ObserverTimeout)
  /\ LET t == elapsed + TimeStep
     IN  elapsed' = IF timeoutId /\ t > ObserverTimeout THEN ObserverTimeout
                    ELSE IF t > MaxObserverTime THEN MaxObserverTime
                    ELSE t
  /\ UNCHANGED <<crawlVars, enumVars, loopVars, classVars, fpc, flowVars, wireVars,
                 observing, targetListeners, timeoutId, newTab, broughtToFront,
                 fileVars>>

\* page.waitForNavigation({ timeout }) resolves: cleanup, mainResolve(page).
\* (Its rejection, at the timeout or later, is swallowed and changes nothing.)
NavigationCompletes ==
  /\ observing = "waiting"
  /\ elapsed < ObserverTimeout
  /\ cleanup
  /\ observing' = "page"
  /\ UNCHANGED <<crawlVars, enumVars, loopVars, classVars, fpc, flowVars, wireVars,
                 elapsed, newTab, broughtToFront, fileVars>>

\* The browser emits 'targetcreated': targetListener looks at the opener and,
\* for a target of this page, starts awaiting target.page() and
\* newPage.bringToFront().
TargetCreated ==
  /\ observing = "waiting"
  /\ targetListeners > 0
  /\ ~Cooperative
  /\ newTab \in {"none", "ignored"}
  /\ \E opener \in {"page", "other"} :
       /\ newTab' = IF OpenerMatches(opener) THEN opener ELSE "ignored"
       /\ newTab' # newTab
  /\ UNCHANGED <<crawlVars, enumVars, loopVars, classVars, fpc, flowVars, wireVars,
                 observing, targetListeners, timeoutId, elapsed, broughtToFront,
                 fileVars>>

\* targetListener resumes with the new page in front: cleanup,
\* mainResolve(newPage).
ListenerResolves ==
  /\ observing = "waiting"
  /\ newTab \in {"page", "other"}
  /\ cleanup
  /\ observing' = "new"
  /\ broughtToFront' = TRUE
  /\ UNCHANGED <<crawlVars, enumVars, loopVars, classVars, fpc, flowVars, wireVars,
                 elapsed, newTab, fileVars>>

\* targetListener resumes after the promise was resolved by the navigation
\* or the timer while it awaited target.page(): newPage.bringToFront() runs
\* all the same, then cleanup and mainResolve(newPage), which change nothing.
\* (It may resume later still; here it does so before the caller goes on.)
ListenerResumesLate ==
  /\ observing \in {"null", "page"}
  /\ newTab \in {"page", "other"}
  /\ ~broughtToFront
  /\ broughtToFront' = TRUE
  /\ UNCHANGED <<crawlVars, enumVars, loopVars, classVars, fpc, flowVars, wireVars,
                 observing, targetListeners, timeoutId, elapsed, newTab, fileVars>>

\* The timer fires: cleanup, mainResolve(null).
TimeoutFires ==
  /\ observing = "waiting"
  /\ timeoutId
  /\ elapsed >= ObserverTimeout
  /\ cleanup
  /\ observing' = "null"
  /\ UNCHANGED <<crawlVars, enumVars, loopVars, classVars, fpc, flowVars, wireVars,
                 elapsed, newTab, broughtToFront, fileVars>>

\* The caller resumes with the observer's result; the observer's locals are
\* gone.
ObserverReturns ==
  /\ observing' = "idle"
  /\ elapsed' = 0
  /\ newTab' = "none"
  /\ broughtToFront' = FALSE
  /\ UNCHANGED <<targetListeners, timeoutId>>

\* detectNavigationOrNewTab after a select(), the switch to a new page, and
\* the end of the loops: the select-application entry is pushed.
SelectNavigation ==
  /\ fpc = "selectNav"
  /\ observing \in {"null", "page", "new"}
  /\ ObserverReturns
  /\ LET last == selPos = Len(SelectPairs(mapping))
         goOn ==
           /\ UNCHANGED flowError
           /\ staleSelects' = (~last /\ (staleSelects \/ observing = "new"))
           /\ selPos' = selPos + 1
           /\ IF last
              THEN /\ \E selectIdentifiers \in
                          {Len(SelectPairs(mapping))}
                            \cup (IF Cooperative THEN {}
                                  ELSE {Len(SelectPairs(mapping)) + ExtraSelects}) :
                        actions' = <<SelectAction(FALSE,
                                      buildFullSelectMapping(mapping, selectCombination,
                                                             selectIdentifiers))>>
                   /\ fpc' = "fill"
              ELSE /\ fpc' = "select"
                   /\ UNCHANGED actions
     IN  \/ /\ goOn                      \* null (timeout), the same page, or a
            /\ UNCHANGED leakedPages    \* new tab: page closed, page = newPage
         \/ /\ observing = "new"        \* a new tab, and page.close() throws
            /\ leakedPages' = leakedPages + 1
            /\ fpc' = "finally"
            /\ flowError' = TRUE
            /\ UNCHANGED <<selPos, actions, staleSelects>>
  /\ UNCHANGED <<crawlVars, enumVars, loopVars, classVars, selectCombination, assigned,
                 selectFailed, pfPage, cfSwitched, written, oracleVars, clickVars,
                 shotVars, wireVars, fileVars>>

\* ----------------------------------------------------------- continueFlow

\* page_<n>.png is written: created, or written over if it exists.
WriteFile(files, n) ==
  IF n <= Len(files) THEN [files EXCEPT ![n] = @ + 1] ELSE Append(files, 1)

\* A faulty NextScreenshotIndex: the index is not advanced.
NextScreenshotIndexSame(n) == n

\* screenshotIndex++.
NextScreenshotIndex(n) == n + 1

\* takeScreenshot, which writes page_<screenshotIndex>.png, and the dispatch
\* of classifyScreenshot(screenshotPath).
ShotTaken ==
  /\ pending < MaxPending
  /\ UNCHANGED orphaned
  /\ fileWrites' = WriteFile(fileWrites, screenshotIndex)
  /\ screenshotPath' = screenshotIndex
  /\ screenshotIndex' = NextScreenshotIndex(screenshotIndex)
  /\ pending' = pending + 1

\* The entry of continueFlow: fillInputFields, the first screenshot and its
\* classification request.
FirstScreenshot ==
  /\ fpc = "fill"
  /\ \/ /\ ShotTaken
        /\ fpc' = "loop"
        /\ UNCHANGED flowError
     \/ /\ ~Cooperative                 \* fillInputFields or takeScreenshot
        /\ fpc' = "finally"             \* throws: the error leaves continueFlow
        /\ flowError' = TRUE
        /\ UNCHANGED <<classVars, shotVars, fileVars>>
  /\ UNCHANGED <<crawlVars, enumVars, loopVars, selectCombination, selPos, assigned,
                 selectFailed, staleSelects, pageVars, traceVars, oracleVars, clickVars, wireVars,
                 observerVars>>

\* A faulty LoopCondition: the click ceiling is not tested.
LoopConditionNoCeiling(count, limit, break) == ~break

\* while (clickCount < clickLimit && !shouldBreakLoop).
LoopCondition(count, limit, break) == count < limit /\ ~break

\* A faulty AfterWrite: the reply is not awaited.
AfterWriteNoAwait == "loop"

\* Where continueFlow stands after client.write: at the await of the reply.
AfterWrite == "await"

\* One turn of the loop starts: client.write(`${screenshotPath}\n`).
QueryOracle ==
  /\ fpc = "loop"
  /\ LoopCondition(clickCount, CLICK_LIMIT, shouldBreakLoop)
  /\ iterations' = iterations + 1
  /\ queried' = screenshotPath
  /\ fpc' = AfterWrite
  /\ UNCHANGED <<crawlVars, enumVars, loopVars, classVars, selectVars, pageVars,
                 traceVars, clickPosition, outcome, noPopups, received, clickVars,
                 shotVars>>
  /\ UNCHANGED ioVars

\* The loop is left.
LoopExit ==
  /\ fpc = "loop"
  /\ ~LoopCondition(clickCount, CLICK_LIMIT, shouldBreakLoop)
  /\ fpc' = "final"
  /\ UNCHANGED <<crawlVars, enumVars, loopVars, classVars, selectVars, pageVars,
                 traceVars, oracleVars, clickVars, shotVars>>
  /\ UNCHANGED ioVars

\* The lines the oracle may answer: the protocol's fixed texts, a malformed
\* line, and a click point that is one already named in this flow or the
\* next new one.
OracleReplies ==
  IF Cooperative THEN { NoLoginButtonText }
  ELSE { NoLoginButtonText, ErrorNoElementText, <<"x">> }
       \cup (IF noPopups < MaxNoPopups THEN { NoPopupsText } ELSE {})
       \cup { ClickText(Positions[k]) :
                k \in 1..(IF Cardinality(clickedPositions) < Len(Positions)
                          THEN Cardinality(clickedPositions) + 1
                          ELSE Len(Positions)) }

\* The oracle answers the query: its line, newline-terminated, is on the
\* socket.
OracleAnswers ==
  /\ fpc = "await"
  /\ client = "connected"
  /\ received < iterations
  /\ wire = <<>>
  /\ \E line \in OracleReplies : wire' = line \o <<Newline>>
  /\ delivered' = 0
  /\ UNCHANGED <<crawlVars, enumVars, loopVars, classVars, fpc, flowVars,
                 observerVars, fileVars>>

\* Mutant of AlreadyClicked: the position is never taken as clicked.
AlreadyClickedNever(positions, key) == FALSE

\* clickedPositions.has(positionKey).
AlreadyClicked(positions, key) == key \in positions

\* Mutant of NextClickCount: the counter is not advanced.
NextClickCountStuck(count) == count

\* clickCount++.
NextClickCount(count) == count + 1

\* A faulty AddPosition: the accepted position is not remembered.
AddPositionForgotten(positions, key) == positions

\* clickedPositions.add(positionKey).
AddPosition(positions, key) == positions \cup {key}

\* The terminal entry: a null position on the current screenshot.
TerminalAction(note) ==
  ClickAction(Len(actions), NullPosition, NullHTML, screenshotPath, note)

\* A faulty NoPopupsBreak: the loop is left on "No popups found".
NoPopupsBreakSet == TRUE

\* shouldBreakLoop after a "No popups found" reply (line 627).
NoPopupsBreak == FALSE

\* A faulty NoElementFound: a missing element is taken for one.
NoElementFoundNever(html) == FALSE

\* currentElementHTML === null: document.elementFromPoint found no element.
NoElementFound(html) == html = NullHTML

\* A faulty SameElement: the comparison with the previous element left out.
SameElementNever(current, previous) == FALSE

\* currentElementHTML === previousElementHTML.
SameElement(current, previous) == current = previous

\* overlayClickPosition(screenshotPath, screenshotPath, x, y): the image
\* with the marker is written to a temporary file, which is then renamed to
\* the screenshot's path.
overlayClickPosition(files, outputImagePath) == WriteFile(files, outputImagePath)

\* A faulty AfterClick: the observer is not awaited.
AfterClickNoObserver == "shot"

\* Where continueFlow stands after page.mouse.click and clickCount++: at
\* await detectNavigationOrNewTab(page).
AfterClick == "nav"

\* The socket emits the line in one 'data' event: dataListener resolves with
\* data.toString().trim() and the turn of the loop runs up to the click.
Decide ==
  /\ fpc = "await"
  /\ client = "connected"
  /\ wire # <<>>
  /\ wire' = <<>>
  /\ delivered' = 0
  /\ \E reply \in {Trim(wire)} :
       LET o   == ClassifyReply(reply)
           key == positionKey(o.x, o.y)
           stop(acts, clicked, html) ==
             /\ actions' = acts
             /\ clickedPositions' = clicked
             /\ currentElementHTML' = html
             /\ shouldBreakLoop' = TRUE
             /\ fpc' = "loop"
             /\ UNCHANGED <<previousElementHTML, clickCount, clicks, noPopups,
                            fileWrites>>
       IN  /\ clickPosition' = reply
           /\ outcome' = o
           /\ received' = received + 1
           /\ CASE o.tag = "NoElement" ->
                     stop(Append(actions, TerminalAction("")), clickedPositions, NullHTML)
                [] o.tag = "NoPopup" ->
                     /\ noPopups' = noPopups + 1
                     /\ shouldBreakLoop' = NoPopupsBreak
                     /\ fpc' = "loop"
                     /\ currentElementHTML' = NullHTML
                     /\ UNCHANGED <<actions, clickedPositions, previousElementHTML,
                                    clickCount, clicks, fileWrites>>
                [] o.tag = "Malformed" -> stop(actions, clickedPositions, NullHTML)
                [] o.tag = "Click" /\ AlreadyClicked(clickedPositions, key) ->
                     stop(actions, clickedPositions, NullHTML)
                [] OTHER ->
                     LET clicked == AddPosition(clickedPositions, key)
                     IN  \/ stop(actions, clicked, UnassignedHTML)
                                                        \* page.evaluate throws
                         \/ \E html \in ElementHTMLs \cup {NullHTML} :
                              LET act(note) ==
                                    ClickAction(Len(actions), <<o.x, o.y>>,
                                                truncateString(html), screenshotPath,
                                                note)
                              IN  IF NoElementFound(html)
                                  THEN stop(Append(actions, TerminalAction("")),
                                            clicked, html)
                                  ELSE IF SameElement(html, previousElementHTML)
                                  THEN stop(Append(actions,
                                         act("Flow stopped: same element as previous click")),
                                         clicked, html)
                                  ELSE /\ actions' = Append(actions, act(""))
                                       /\ clickedPositions' = clicked
                                       /\ previousElementHTML' = html
                                       /\ currentElementHTML' = html
                                       /\ fileWrites' = overlayClickPosition(
                                                           fileWrites, screenshotPath)
                                       /\ UNCHANGED noPopups
                                       /\ \/ /\ clicks' = clicks + 1
                                             /\ clickCount' = NextClickCount(clickCount)
                                             /\ fpc' = AfterClick
                                             /\ UNCHANGED shouldBreakLoop
                                          \/ /\ shouldBreakLoop' = TRUE
                                                        \* mouse.move or click throws
                                             /\ fpc' = "loop"
                                             /\ UNCHANGED <<clicks, clickCount>>
  /\ UNCHANGED <<crawlVars, enumVars, loopVars, classVars, selectVars, pageVars,
                 written, iterations, queried, shotVars, observerVars>>

\* The oracle server closes the connection while a reply is awaited.  The
\* socket has no 'close', 'end' or 'error' listener once connected
\* (handleError is removed at line 831): a clean close leaves the promise of
\* the reply pending for ever, an 'error' event with no listener ends the
\* process.
ConnectionDropped ==
  /\ fpc = "await"
  /\ client = "connected"
  /\ wire = <<>>
  /\ ~Cooperative
  /\ client' = "dropped"
  /\ \/ UNCHANGED <<pc, fpc>>
     \/ pc' = "crashed" /\ fpc' = "crashed"
  /\ UNCHANGED <<connectVars, browser, browserCloses, promisesDeclared, rejected,
                 pageSelects, enumVars, loopVars, classVars, flowVars>>
  /\ UNCHANGED ioVars

\* detectNavigationOrNewTab has returned after the click: the switch to a
\* new page.
ClickNavigation ==
  /\ fpc = "nav"
  /\ observing \in {"null", "page", "new"}
  /\ ObserverReturns
  /\ \/ /\ observing \in {"null", "page"}  \* null (timeout) or the same page
        /\ fpc' = "shot"
        /\ UNCHANGED <<pageVars, shouldBreakLoop>>
     \/ /\ observing = "new"            \* a new tab: close the page, switch
        /\ fpc' = "shot"
        /\ pfPage' = IF cfSwitched THEN pfPage ELSE "closed"
        /\ cfSwitched' = TRUE
        /\ UNCHANGED <<leakedPages, shouldBreakLoop>>
     \/ /\ observing = "new"            \* a new tab, and page.close() throws
        /\ fpc' = "loop"
        /\ shouldBreakLoop' = TRUE
        /\ leakedPages' = leakedPages + 1
        /\ UNCHANGED <<pfPage, cfSwitched>>
  /\ UNCHANGED <<crawlVars, enumVars, loopVars, classVars, selectVars, traceVars,
                 oracleVars, clickedPositions, previousElementHTML,
                 currentElementHTML, clickCount, clicks, shotVars, wireVars,
                 fileVars>>

\* fillInputFields, sleep(4000), the next screenshot and its classification
\* request.
NextScreenshot ==
  /\ fpc = "shot"
  /\ \/ /\ ShotTaken
        /\ UNCHANGED shouldBreakLoop
     \/ /\ shouldBreakLoop' = TRUE       \* fillInputFields or takeScreenshot throws
        /\ UNCHANGED <<classVars, shotVars, fileVars>>
  /\ fpc' = "loop"
  /\ UNCHANGED <<crawlVars, enumVars, loopVars, selectVars, pageVars, traceVars,
                 oracleVars, clickedPositions, previousElementHTML,
                 currentElementHTML, clickCount, clicks, wireVars, observerVars>>

\* A faulty LastHasPosition: the last entry is taken to be terminal already.
LastHasPositionNever(acts) == FALSE

\* A faulty LastHasPosition: the last entry is never taken to be terminal.
LastHasPositionAlways(acts) == TRUE

\* Whether the last entry's clickPosition !== null: true of a click entry
\* with a position and of the select entry, which has no such field.
LastHasPosition(acts) ==
  LET last == acts[Len(acts)]
  IN  last.kind = "select" \/ last.clickPosition # NullPosition

\* A faulty TraceToWrite: the list as it was before the final entry.
TraceWithoutFinal(before, final) == before

\* The list handed to JSON.stringify at line 781: actions, the final entry
\* pushed.
TraceToWrite(before, final) == final

\* After the loop: the final entry if one is needed, then the trace is
\* written to click_actions_flow_<n>.json.
WriteTrace ==
  /\ fpc = "final"
  /\ LET needFinal == /\ (shouldBreakLoop \/ clickCount >= CLICK_LIMIT)
                      /\ (Len(actions) = 0 \/ LastHasPosition(actions))
         final == IF needFinal
                  THEN Append(actions, TerminalAction(
                         IF shouldBreakLoop THEN "Flow terminated early"
                         ELSE "Click limit reached"))
                  ELSE actions
     IN  /\ actions' = final
         /\ \/ /\ written' = Append(written,
                                     StringifyActions(TraceToWrite(actions, final)))
               /\ UNCHANGED flowError
            \/ /\ ~Cooperative          \* fs.writeFileSync throws
               /\ flowError' = TRUE
               /\ UNCHANGED written
  /\ fpc' = "finally"
  /\ UNCHANGED <<crawlVars, enumVars, loopVars, classVars, selectCombination, selPos,
                 assigned, selectFailed, staleSelects, pageVars, oracleVars, clickVars, shotVars>>
  /\ UNCHANGED ioVars

\* performFlow's finally: if (page && !page.isClosed()) await page.close().
\* An error of page.close() here leaves performFlow and reaches the catch of
\* runCrawler.
FlowFinally ==
  /\ fpc = "finally"
  /\ fpc' = "idle"
  /\ \/ /\ pfPage = "open"              \* page.close(), then return
        /\ i' = i + 1
        /\ UNCHANGED pc
     \/ /\ pfPage # "open"              \* no page, or closed already: return
        /\ i' = i + 1
        /\ UNCHANGED pc
     \/ /\ ~Cooperative
        /\ pfPage = "open"              \* page.close() throws
        /\ pc' = "finally"
        /\ UNCHANGED i
  /\ FlowLocalsGone
  /\ UNCHANGED <<connectVars, client, browser, browserCloses, promisesDeclared,
                 rejected, pageSelects, enumVars, flowsRun, classVars, wireVars,
                 observerVars>>

\* ------------------------------------------------------- the specification

Next ==
  \/ TryConnect
  \/ Tick
  \/ ConnectRefused
  \/ Connected
  \/ LaunchBrowser
  \/ EnumerateSelects
  \/ Deduplicate
  \/ BuildFlows
  \/ StartFlow
  \/ FlowsDone
  \/ CloseBrowser
  \/ CloseClient
  \/ ClassificationSettles
  \/ ServerClosesUnanswered
  \/ OpenPage
  \/ SelectOption
  \/ StartObserver
  \/ ObserverTick
  \/ NavigationCompletes
  \/ TargetCreated
  \/ ListenerResolves
  \/ ListenerResumesLate
  \/ TimeoutFires
  \/ SelectNavigation
  \/ FirstScreenshot
  \/ QueryOracle
  \/ LoopExit
  \/ OracleAnswers
  \/ Decide
  \/ ConnectionDropped
  \/ ClickNavigation
  \/ NextScreenshot
  \/ WriteTrace
  \/ FlowFinally

Spec == Init /\ [][Next]_vars

\* The crawl with the retry timer firing, time passing, and an oracle server
\* that answers every connection attempt and accepts one in the end.
FairSpec ==
  Spec /\ WF_vars(TryConnect) /\ WF_vars(Tick) /\ WF_vars(Connected)

\* ------------------------------------------- the enumerator on its own

\* The option lists and inventories the enumerator is checked on.
OptionLists == SeqsUpTo(OptionValues, MaxOptions)

Inventories == SeqsUpTo(OptionLists, MaxSelects)

\* runCrawler at line 978, the inventory read: any bounded inventory.
InitEnum ==
  /\ pc = "branch"
  /\ ConnectIdle
  /\ client = "connected"
  /\ browser = "open"
  /\ browserCloses = 0
  /\ promisesDeclared = TRUE
  /\ pending = 0
  /\ rejected = FALSE
  /\ pageSelects \in Inventories
  /\ selectOptions = pageSelects
  /\ uniqueOptions = <<>>
  /\ mapping = <<>>
  /\ flows = <<>>
  /\ i = 0
  /\ flowsRun = 0
  /\ fpc = "idle"
  /\ FlowReset
  /\ IoIdle

NextEnum == Deduplicate \/ BuildFlows

SpecEnum == InitEnum /\ [][NextEnum]_vars

\* --------------------------------- the reply classification on its own

\* The symbols a reply line is made of: the protocol's fixed texts, the
\* literal of the click pattern, a blank, a digit, a comma, another character.
ReplySymbols ==
  { NoLoginButtonText[1], ErrorNoElementText[1], NoPopupsText[1],
    ClickPointLiteral, " ", "1", ",", "x" }

\* continueFlow waiting for the oracle's line: any bounded line.
InitParse ==
  /\ pc = "flows"
  /\ ConnectIdle
  /\ client = "connected"
  /\ browser = "open"
  /\ browserCloses = 0
  /\ promisesDeclared = TRUE
  /\ pending = 0
  /\ rejected = FALSE
  /\ pageSelects = <<>>
  /\ selectOptions = <<>>
  /\ uniqueOptions = <<>>
  /\ mapping = <<>>
  /\ flows = <<>>
  /\ i = 0
  /\ flowsRun = 1
  /\ fpc = "await"
  /\ selectCombination = NoCombination
  /\ selPos = 1
  /\ assigned = <<>>
  /\ selectFailed = FALSE
  /\ staleSelects = FALSE
  /\ flowError = FALSE
  /\ pfPage = "open"
  /\ cfSwitched = FALSE
  /\ leakedPages = 0
  /\ actions = <<SelectAction(TRUE, <<>>)>>
  /\ written = <<>>
  /\ clickedPositions = {}
  /\ previousElementHTML = NullHTML
  /\ currentElementHTML = NullHTML
  /\ shouldBreakLoop = FALSE
  /\ clickCount = 0
  /\ clicks = 0
  /\ screenshotIndex = 2
  /\ screenshotPath = 1
  /\ clickPosition \in SeqsUpTo(ReplySymbols, MaxReplyLen)
  /\ outcome = NoOutcome
  /\ iterations = 1
  /\ noPopups = 0
  /\ queried = 1
  /\ received = 1
  /\ orphaned = FALSE
  /\ wire = <<>>
  /\ delivered = 0
  /\ observing = "idle"
  /\ targetListeners = 0
  /\ timeoutId = FALSE
  /\ elapsed = 0
  /\ newTab = "none"
  /\ broughtToFront = FALSE
  /\ fileWrites = <<1>>

\* The line on the socket is read and classified.
ParseReply ==
  /\ fpc = "await"
  /\ received = iterations
  /\ outcome = NoOutcome
  /\ outcome' = ClassifyReply(clickPosition)
  /\ UNCHANGED <<crawlVars, enumVars, loopVars, classVars, fpc, selectVars, pageVars,
                 traceVars, clickPosition, iterations, noPopups, queried, received,
                 clickVars, shotVars>>
  /\ UNCHANGED ioVars

NextParse == ParseReply

SpecParse == InitParse /\ [][NextParse]_vars

\* ------------------------------------- the reply on the socket, in chunks

\* The queries of one flow the delivery of a reply is followed over.
MaxQueries == 2

\* The lines the oracle sends.
OracleLines ==
  { NoLoginButtonText, ErrorNoElementText, NoPopupsText, <<"x">> }
    \cup { ClickText(Positions[k]) : k \in 1..Len(Positions) }

\* continueFlow has written its first query and registered dataListener; the
\* oracle's newline-terminated line is on its way.
InitWire ==
  /\ pc = "flows"
  /\ ConnectIdle
  /\ client = "connected"
  /\ browser = "open"
  /\ browserCloses = 0
  /\ promisesDeclared = TRUE
  /\ pending = 0
  /\ rejected = FALSE
  /\ pageSelects = <<>>
  /\ selectOptions = <<>>
  /\ uniqueOptions = <<>>
  /\ mapping = <<>>
  /\ flows = <<>>
  /\ i = 0
  /\ flowsRun = 1
  /\ fpc = "await"
  /\ selectCombination = NoCombination
  /\ selPos = 1
  /\ assigned = <<>>
  /\ selectFailed = FALSE
  /\ staleSelects = FALSE
  /\ flowError = FALSE
  /\ pfPage = "open"
  /\ cfSwitched = FALSE
  /\ leakedPages = 0
  /\ actions = <<SelectAction(TRUE, <<>>)>>
  /\ written = <<>>
  /\ clickedPositions = {}
  /\ previousElementHTML = NullHTML
  /\ currentElementHTML = NullHTML
  /\ shouldBreakLoop = FALSE
  /\ clickCount = 0
  /\ clicks = 0
  /\ screenshotIndex = 2
  /\ screenshotPath = 1
  /\ clickPosition = <<>>
  /\ outcome = NoOutcome
  /\ iterations = 1
  /\ noPopups = 0
  /\ queried = 1
  /\ received = 0
  /\ orphaned = FALSE
  /\ wire \in { line \o <<Newline>> : line \in OracleLines }
  /\ delivered = 0
  /\ observing = "idle"
  /\ targetListeners = 0
  /\ timeoutId = FALSE
  /\ elapsed = 0
  /\ newTab = "none"
  /\ broughtToFront = FALSE
  /\ fileWrites = <<1>>

\* The socket emits a 'data' event with the next bytes it holds, a part of
\* the line or all that is left of it: dataListener removes itself and
\* resolves with data.toString().trim().
DataEvent ==
  /\ fpc = "await"
  /\ received < iterations
  /\ \E k \in (delivered + 1)..Len(wire) :
       /\ clickPosition' = Trim(SubSeq(wire, delivered + 1, k))
       /\ delivered' = k
  /\ received' = received + 1
  /\ UNCHANGED <<crawlVars, enumVars, loopVars, classVars, fpc, selectVars, pageVars,
                 traceVars, outcome, iterations, noPopups, queried, clickVars,
                 shotVars, wire, observerVars, fileVars>>

\* The rest of the line arrives while no 'data' listener is registered (the
\* socket keeps flowing): it is dropped.
ResidueDropped ==
  /\ fpc = "await"
  /\ received = iterations
  /\ delivered < Len(wire)
  /\ delivered' = Len(wire)
  /\ UNCHANGED <<crawlVars, enumVars, loopVars, classVars, fpc, flowVars, wire,
                 observerVars, fileVars>>

\* The turn of the loop goes on after a click or "No popups found" and the
\* next query is written: dataListener is registered again.
NextQuery ==
  /\ fpc = "await"
  /\ outcome.tag \in {"Click", "NoPopup"}
  /\ iterations < MaxQueries
  /\ iterations' = iterations + 1
  /\ outcome' = NoOutcome
  /\ clickPosition' = <<>>
  /\ UNCHANGED <<crawlVars, enumVars, loopVars, classVars, fpc, selectVars, pageVars,
                 traceVars, noPopups, queried, received, clickVars, shotVars,
                 ioVars>>

NextWire == DataEvent \/ ParseReply \/ ResidueDropped \/ NextQuery

SpecWire == InitWire /\ [][NextWire]_vars

\* ------------------------------------------------------------ properties

\* The entries of a trace that carry a click position.
PositionedSteps(acts) ==
  { n \in 1..Len(acts) : acts[n].kind = "click" /\ acts[n].clickPosition # NullPosition }

\* C1: the Action list of a flow never holds two entries with the same
\* non-null click position, and no more clicks have been made than distinct
\* positions recorded: a reply that repeats an accepted position adds neither
\* an entry nor a click.
C1_NoRepeatedClickPosition ==
  /\ \A m, n \in PositionedSteps(actions) :
       actions[m].clickPosition = actions[n].clickPosition => m = n
  /\ clicks <= Cardinality({ actions[n].clickPosition : n \in PositionedSteps(actions) })

\* C1 witness: the oracle named again the position clicked on an earlier
\* screenshot and the flow stopped with the one entry for it.
C1_Witness ==
  /\ fpc = "loop"
  /\ shouldBreakLoop
  /\ outcome.tag = "Click"
  /\ clicks = 2
  /\ \E n \in PositionedSteps(actions) :
       /\ actions[n].clickPosition = <<outcome.x, outcome.y>>
       /\ actions[n].screenshot < screenshotPath
  /\ Cardinality(PositionedSteps(actions)) = 2

C3_ClosedOnEveryExit ==
  (pc = "done" /\ browser # "none" /\ client # "none")
    => (browser = "closed" /\ client = "closed")

\* C4: the session is closed only with no classification request pending,
\* the connection only after the session, and a session that was created
\* has been closed exactly once when runCrawler has finished.
C4_TeardownOrder ==
  /\ browser = "closed" => pending = 0
  /\ client = "closed" => browser # "open"
  /\ browserCloses <= 1
  /\ (pc = "done" /\ browser # "none") => browserCloses = 1

\* The performFlow calls runCrawler has to make for the inventory it read.
FlowsToRun == IF Len(selectOptions) = 0 THEN 1 ELSE Len(flows)

\* C5: whatever is thrown inside a flow, performFlow is still called for
\* every remaining variant: a crawl that read its inventory ends with one
\* call per variant made.
C5_FailureIsolation ==
  (pc = "done" /\ promisesDeclared) => flowsRun = FlowsToRun

\* C6: after a select() that selected nothing the flow is over: no further
\* dropdown assigned, no screenshot, no oracle query, no click, no
\* select-application entry.
C6_AbortOnMissingValue ==
  selectFailed =>
    /\ screenshotPath = 0
    /\ iterations = 0
    /\ clicks = 0
    /\ \A n \in 1..Len(actions) : actions[n].kind # "select"

\* C7: a crawl never makes more than 20 performFlow calls, however many
\* variants were generated, and an empty inventory gives exactly one call,
\* made without a variant.
C7_FlowCap ==
  /\ flowsRun <= 20
  /\ (Len(selectOptions) = 0 /\ fpc # "idle") =>
       (flowsRun = 1 /\ selectCombination = NoCombination)
  /\ (Len(selectOptions) = 0 /\ promisesDeclared /\ pc = "done") => flowsRun = 1

\* The group (1-based) that holds original index idx.
GroupsOf(idx) ==
  { g \in 1..Len(mapping) : \E k \in 1..Len(mapping[g]) : mapping[g][k] = idx }

\* C8: once the inventory is deduplicated, every original index is in exactly
\* one group and once in it, two indices share a group exactly when their
\* option lists are equal, every group lists its indices in ascending order,
\* and the groups are ordered by their first member.
C8_GroupsPartition ==
  (pc \in {"generate", "flows"} /\ Len(selectOptions) > 0) =>
    /\ Len(uniqueOptions) = Len(mapping)
    /\ SumSeq([g \in 1..Len(mapping) |-> Len(mapping[g])]) = Len(selectOptions)
    /\ \A idx \in 0..(Len(selectOptions) - 1) : Cardinality(GroupsOf(idx)) = 1
    /\ \A g \in 1..Len(mapping) :
         /\ Len(mapping[g]) >= 1
         /\ \A k \in 1..Len(mapping[g]) :
              /\ mapping[g][k] \in 0..(Len(selectOptions) - 1)
              /\ selectOptions[mapping[g][k] + 1] = uniqueOptions[g]
         /\ \A k \in 1..(Len(mapping[g]) - 1) : mapping[g][k] < mapping[g][k + 1]
    /\ \A a, b \in 0..(Len(selectOptions) - 1) :
         (GroupsOf(a) = GroupsOf(b)) <=> (selectOptions[a + 1] = selectOptions[b + 1])
    /\ \A g \in 1..(Len(mapping) - 1) : mapping[g][1] < mapping[g + 1][1]

\* C8 witness: three dropdowns, the first and third with the same list.
C8_Witness ==
  /\ pc = "generate"
  /\ mapping = << <<0, 2>>, <<1>> >>

\* The groups in which a variant differs from the default combination.
ChangedGroups(variant) ==
  { g \in 1..Len(uniqueOptions) : variant[g] # defaultCombination(uniqueOptions)[g] }

\* Every variant differs from the default in exactly one group.
OneGroupChanged ==
  \A n \in 1..Len(flows) :
    /\ Len(flows[n]) = Len(uniqueOptions)
    /\ Cardinality(ChangedGroups(flows[n])) = 1

\* C9 as stated: the variants number the sum over the groups of (options of
\* the group - 1), each differing from the default in exactly one group.
C9_Original ==
  (pc = "flows" /\ Len(selectOptions) > 0) =>
    /\ Len(flows) = SumSeq([g \in 1..Len(uniqueOptions) |-> Len(uniqueOptions[g]) - 1])
    /\ OneGroupChanged

\* C9 amended: the variants number the sum over the groups of the options
\* whose value differs from the group's first option, each differing from
\* the default in exactly one group.
C9_VariantCount ==
  (pc = "flows" /\ Len(selectOptions) > 0) =>
    /\ Len(flows) =
         SumSeq([g \in 1..Len(uniqueOptions) |->
                   Cardinality({ k \in 1..Len(uniqueOptions[g]) :
                                   uniqueOptions[g][k] # uniqueOptions[g][1] })])
    /\ OneGroupChanged

\* C9 witness: a group whose list repeats its first value, with variants.
C9_Witness ==
  /\ pc = "flows"
  /\ Len(flows) > 0
  /\ \E g \in 1..Len(uniqueOptions) :
       /\ Len(uniqueOptions[g]) = 2
       /\ uniqueOptions[g][1] = uniqueOptions[g][2]

\* Whether the whole text is "Click Point:", blanks, digits, a comma, blanks,
\* digits.
IsClickPointLine(text) ==
  /\ Len(text) >= 1
  /\ MatchAt(text, 1).ok
  /\ SkipDigits(text, SkipSpaces(text, SkipDigits(text, SkipSpaces(text, 2)) + 1))
       = Len(text) + 1

\* The outcome the protocol gives a reply line.
ProtocolOutcome(data) ==
  LET text == Trim(data)
  IN  IF text = NoLoginButtonText \/ text = ErrorNoElementText
        THEN Outcome("NoElement", -1, -1)
      ELSE IF text = NoPopupsText THEN Outcome("NoPopup", -1, -1)
      ELSE IF IsClickPointLine(text)
        THEN Outcome("Click", MatchAt(text, 1).x, MatchAt(text, 1).y)
      ELSE Outcome("Malformed", -1, -1)

\* C10: a classified reply has the outcome of the protocol: the fixed texts
\* give NoElement and NoPopup, a line "Click Point: <int>, <int>" gives
\* Click with the two integers, any other text gives Malformed.
C10_ReplyClassification ==
  outcome # NoOutcome => outcome = ProtocolOutcome(clickPosition)

\* C11: a Malformed reply is fatal for the flow: no further oracle query is
\* issued in the flow, and the flow ends with an error that reached its
\* caller, the catch block of performFlow.
C11_MalformedPropagates ==
  /\ outcome.tag = "Malformed" => fpc # "await"
  /\ (outcome.tag = "Malformed" /\ fpc = "finally") => flowError

NullSteps(acts) ==
  { n \in 1..Len(acts) : acts[n].kind = "click" /\ acts[n].clickPosition = NullPosition }

\* C13: every trace written to a flow's JSON file ends with an entry whose
\* click position is null, and holds no other such entry: whichever way the
\* loop was left, one terminal entry closes the trace, appended after the
\* loop when the last entry has a position.
C13_TraceEndsWithNullPosition ==
  \A n \in 1..Len(written) :
    /\ Len(written[n]) >= 1
    /\ NullSteps(written[n]) = { Len(written[n]) }

\* C13 witness: the click ceiling reached, the trace written with the entry
\* "Click limit reached" after the last click.
C13_Witness ==
  /\ fpc = "finally"
  /\ clickCount = CLICK_LIMIT
  /\ ~shouldBreakLoop
  /\ Len(written) = 1
  /\ LET t == written[1]
     IN  /\ Len(t) = CLICK_LIMIT + 2
         /\ t[Len(t)].note = "Click limit reached"
         /\ t[Len(t) - 1].clickPosition # NullPosition

\* The note of the entry recorded for a stagnant element.
StagnantNote == "Flow stopped: same element as previous click"

\* C14: when the element found at an accepted position has the markup of the
\* element clicked before it, one entry with this position is recorded, no
\* click is made (the counter keeps its value, no navigation is awaited, no
\* screenshot is taken) and the loop is over.
C14_StagnantElementStops ==
  [][(/\ fpc = "await"
      /\ received' = received + 1
      /\ currentElementHTML' # NullHTML
      /\ currentElementHTML' = previousElementHTML) =>
       /\ actions' = Append(actions,
            ClickAction(Len(actions), <<outcome'.x, outcome'.y>>,
                        truncateString(currentElementHTML'), screenshotPath,
                        StagnantNote))
       /\ clicks' = clicks
       /\ clickCount' = clickCount
       /\ fpc' = "loop"
       /\ screenshotPath' = screenshotPath
       /\ screenshotIndex' = screenshotIndex
       /\ pending' = pending
       /\ ~LoopCondition(clickCount', CLICK_LIMIT, shouldBreakLoop')]_vars

\* C14 witness: a second position whose element is the one clicked first.
C14_Witness ==
  /\ fpc = "loop"
  /\ shouldBreakLoop
  /\ clicks = 1
  /\ clickCount = 1
  /\ Len(actions) = 3
  /\ actions[3].note = StagnantNote
  /\ actions[3].clickPosition # actions[2].clickPosition
  /\ actions[3].elementHTML = actions[2].elementHTML

\* The entries of a trace recorded for position p.
StepsAt(acts, p) == { n \in PositionedSteps(acts) : acts[n].clickPosition = p }

\* C15: a reply naming a position already recorded in the flow ends the loop
\* at that query: no entry is added, no click made, no further query issued
\* (no query is ever issued once the loop is broken); when the reply repeats
\* the reply before it, the trace holds exactly one entry for the position.
C15_DuplicatePositionStops ==
  /\ [][(/\ fpc = "await"
         /\ received' = received + 1
         /\ outcome'.tag = "Click"
         /\ StepsAt(actions, <<outcome'.x, outcome'.y>>) # {}) =>
          /\ actions' = actions
          /\ clicks' = clicks
          /\ clickCount' = clickCount
          /\ fpc' = "loop"
          /\ ~LoopCondition(clickCount', CLICK_LIMIT, shouldBreakLoop')]_vars
  /\ [][(/\ fpc = "await"
         /\ received >= 1
         /\ received' = received + 1
         /\ outcome.tag = "Click"
         /\ clickPosition' = clickPosition) =>
          /\ Cardinality(StepsAt(actions', <<outcome.x, outcome.y>>)) = 1
          /\ clicks' = clicks
          /\ shouldBreakLoop']_vars
  /\ [](shouldBreakLoop => fpc # "await")

\* C15 witness: the first two replies of a flow name the same point; the
\* second is rejected with one click made and one entry recorded.
C15_Witness ==
  /\ fpc = "loop"
  /\ shouldBreakLoop
  /\ received = 2
  /\ noPopups = 0
  /\ outcome.tag = "Click"
  /\ clicks = 1
  /\ Len(actions) = 2
  /\ actions[2].clickPosition = <<outcome.x, outcome.y>>
  /\ actions[2].screenshot < screenshotPath

\* A flow has ended with its trace written after exactly two replies, the
\* second NoElement and neither "No popups found": the first was a click
\* point that was new, had an element and was clicked.
ClickThenNoElement ==
  /\ fpc = "finally"
  /\ Len(written) = 1
  /\ received = 2
  /\ noPopups = 0
  /\ outcome.tag = "NoElement"

\* C16 as stated: after Click(x, y) then NoElement the written trace has
\* exactly two entries, the click at (x, y) and the terminal entry, and the
\* click counter is 1.
C16_Original ==
  ClickThenNoElement =>
    /\ Len(written[1]) = 2
    /\ PositionedSteps(written[1]) = {1}
    /\ NullSteps(written[1]) = {2}
    /\ clickCount = 1

\* C16 amended: after Click(x, y) then NoElement the written trace holds
\* exactly one click entry, at (x, y), followed by exactly one terminal
\* entry, both after the selectOptions entry performFlow recorded: three
\* entries, or two when the select application recorded none; the click
\* counter is 1.
C16_ClickThenNoElementTrace ==
  ClickThenNoElement =>
    LET t == written[1]
        k == Len(t)
    IN  /\ k = IF selectFailed THEN 2 ELSE 3
        /\ k = 3 => t[1].kind = "select"
        /\ PositionedSteps(t) = {k - 1}
        /\ NullSteps(t) = {k}
        /\ clickedPositions =
             { positionKey(t[k - 1].clickPosition[1], t[k - 1].clickPosition[2]) }
        /\ t[k - 1].screenshot = 1
        /\ t[k].screenshot = 2
        /\ clickCount = 1
        /\ clicks = 1

\* C16 witness: such a flow, its trace opened by the selectOptions entry.
C16_Witness ==
  /\ ClickThenNoElement
  /\ Len(written[1]) = 3
  /\ written[1][1].kind = "select"
  /\ written[1][2].clickPosition = Positions[1]

\* The inventory was read and is empty.
EmptyInventory == promisesDeclared /\ Len(selectOptions) = 0

\* C17: with an empty inventory performFlow is called exactly once in the
\* crawl, no dropdown is assigned, and the trace of the flow opens with the
\* entry selectOptions: null, its only selectOptions entry.
C17_EmptyInventoryFlow ==
  EmptyInventory =>
    /\ flowsRun <= 1
    /\ pc \in {"finally", "closeClient", "done"} => flowsRun = 1
    /\ fpc # "idle" => selectCombination = NoCombination
    /\ assigned = <<>>
    /\ ~selectFailed
    /\ Len(actions) > 0 =>
         /\ actions[1] = SelectAction(TRUE, <<>>)
         /\ \A n \in 2..Len(actions) : actions[n].kind = "click"
    /\ \A n \in 1..Len(written) :
         /\ written[n][1] = SelectAction(TRUE, <<>>)
         /\ \A m \in 2..Len(written[n]) : written[n][m].kind = "click"

\* C17 witness: the one flow of a page without dropdowns has clicked and
\* written its trace.
C17_Witness ==
  /\ EmptyInventory
  /\ fpc = "finally"
  /\ flowsRun = 1
  /\ clicks = 1
  /\ Len(written) = 1
  /\ written[1][1] = SelectAction(TRUE, <<>>)

\* C18: connectSocketWithRetry makes one attempt more than were refused (k
\* refusals, then the attempt that succeeds: k + 1 in all), every attempt
\* after the first is made one retry interval after the refusal before it,
\* no oracle query is issued before the connection is made, and with a
\* server that accepts in the end the connection is made.
C18_ConnectRetry ==
  /\ [](pc = "connect" => retryCount = failures + (IF connecting THEN 1 ELSE 0))
  /\ [](pc = "launch" => (client = "connected" /\ retryCount = failures + 1))
  /\ [][(retryCount' = retryCount + 1 /\ retryCount >= 1) =>
          (failedAt # -1 /\ now = failedAt + RetryInterval)]_vars
  /\ [](client = "none" => (fpc = "idle" /\ iterations = 0))
  /\ <>(client = "connected")

\* C18 witness: two refusals, then the third attempt accepted.
C18_Witness ==
  /\ pc = "launch"
  /\ client = "connected"
  /\ failures = 2
  /\ retryCount = 3
  /\ now >= 2 * RetryInterval

\* C19: when the oracle connection has been dropped, a connection attempt is
\* under way or scheduled, so no query stays waiting on the dead connection.
C19_ReconnectAfterDrop ==
  client = "dropped" => (connecting \/ failedAt # -1)

C21_OneLinePerQuery ==
  (fpc = "await" /\ received = iterations /\ Len(wire) > 0) =>
    /\ clickPosition = Trim(wire)
    /\ iterations = 1

\* C22: after a click, no screenshot is captured and no oracle query is
\* issued until the observer started for that click has returned and the page
\* switch it caused has been applied: the click leaves continueFlow at the
\* await of the observer, nothing is captured or queried while it stands
\* there, and it goes on only with the observer's result, on the new page
\* when there is one (or out of the loop when closing the old page fails).
C22_ObserverBeforeNextShot ==
  [][ /\ (clicks' = clicks + 1) => (fpc' = "nav" /\ observing' = "idle")
      /\ (fpc = "nav") =>
           /\ screenshotIndex' = screenshotIndex
           /\ screenshotPath' = screenshotPath
           /\ iterations' = iterations
           /\ queried' = queried
           /\ (fpc' # "nav") =>
                /\ observing \in {"null", "page", "new"}
                /\ (observing = "new") =>
                     \/ cfSwitched' /\ fpc' = "shot"
                     \/ shouldBreakLoop' /\ fpc' = "loop"
    ]_vars

\* C22 witness: the second query of a flow, on the screenshot taken after the
\* click's new tab was detected and the page switched.
C22_Witness ==
  /\ fpc = "await"
  /\ clicks = 1
  /\ cfSwitched
  /\ screenshotPath = 2
  /\ queried = 2

\* C23: whenever detectNavigationOrNewTab is not waiting (it has returned by
\* navigation, by a new tab or by the timeout, or has not been called) no
\* 'targetcreated' listener of it is registered on the browser and its timer
\* is not armed; while it waits exactly one listener is registered.
C23_ObserverCleansUp ==
  /\ (observing # "waiting") => (targetListeners = 0 /\ ~timeoutId)
  /\ (observing = "waiting") => (targetListeners = 1)

\* C23 witness: in the second flow of a crawl the observer of a click has
\* resolved by the timeout while a tab of the page was still being adopted.
C23_Witness ==
  /\ flowsRun = 2
  /\ fpc = "nav"
  /\ observing = "null"
  /\ ~timeoutId
  /\ newTab = "page"
  /\ targetListeners = 0

\* C24: the observer returns within its bounded wait and with what resolved
\* first.  While it waits its timer is armed and no more than the timeout has
\* passed; a result once set is not replaced before the caller takes it; the
\* result is null only when the timer fired, at the timeout, and the caller
\* then keeps its page; and a new page is returned only for a target whose
\* opener is the page observed.
C24_ObserverBounded ==
  /\ [](observing = "waiting" => timeoutId)
  /\ [](observing # "idle" => elapsed <= ObserverTimeout)
  /\ [](observing = "new" => newTab = "page")
  /\ [][ /\ (observing \in {"null", "page", "new"}) =>
              (observing' \in {observing, "idle"})
         /\ (observing' = "null" /\ observing # "null") =>
              (observing = "waiting" /\ elapsed = ObserverTimeout)
         /\ (observing = "null" /\ observing' = "idle") =>
              (UNCHANGED <<pfPage, cfSwitched, leakedPages>> /\ ~flowError')
       ]_vars

\* C24 witness: the observer of a click has returned null at the timeout, a
\* target of another opener having been created meanwhile and ignored.
C24_Witness ==
  /\ fpc = "nav"
  /\ observing = "null"
  /\ elapsed = ObserverTimeout
  /\ newTab = "ignored"

\* C25: a flow never clicks more than CLICK_LIMIT times, and once its click
\* counter has reached the ceiling it issues no further oracle query.
C25_ClickCeiling ==
  /\ [](clicks <= CLICK_LIMIT /\ clickCount <= CLICK_LIMIT)
  /\ [][ (clickCount >= CLICK_LIMIT) =>
           (iterations' <= iterations /\ queried' \in {queried, 0}) ]_vars

\* C25 witness: the loop has been left at the ceiling, after CLICK_LIMIT
\* clicks and as many queries.
C25_Witness ==
  /\ fpc = "final"
  /\ ~shouldBreakLoop
  /\ clicks = CLICK_LIMIT
  /\ clickCount = CLICK_LIMIT
  /\ iterations = CLICK_LIMIT

\* C26: a flow writes its trace at most once, only when its oracle loop is
\* over and the final entry is in place, and does not change its Action list
\* afterwards; and every flow whose oracle loop has ended, by a terminal
\* reply, the ceiling or an error inside the loop, has written the list it
\* ends with (unless the write itself failed, which ends the flow in error).
C26_TraceWrittenOnce ==
  /\ [](Len(written) <= 1)
  /\ []((fpc = "finally" /\ screenshotPath >= 1) =>
          \/ ~flowError /\ written = <<StringifyActions(actions)>>
          \/ flowError /\ written = <<>>)
  /\ [][ /\ (written' # written /\ written' # <<>>) =>
              (fpc = "final" /\ fpc' = "finally"
                 /\ written' = <<StringifyActions(actions')>>)
         /\ (written # <<>>) =>
              (actions' = actions \/ (actions' = <<>> /\ written' = <<>>))
       ]_vars

\* C26 witness: a flow whose loop was left on an error inside it (the next
\* screenshot failed after a click) has written its trace, final entry
\* included.
C26_Witness ==
  /\ fpc = "finally"
  /\ ~flowError
  /\ clicks = 1
  /\ screenshotPath = 1
  /\ shouldBreakLoop
  /\ iterations = 1
  /\ Len(written) = 1
  /\ Len(written[1]) = 3
  /\ written[1][3].note = "Flow terminated early"

\* C27: the trace read back from a flow's JSON file is identical, in order
\* and in content, to the flow's Action list in memory.
C27_RoundTrip ==
  \A n \in 1..Len(written) : ParseActions(written[n]) = actions

\* C28: the element markup stored in an Action is never longer than
\* MaxLength characters, and markup of at most MaxLength characters is
\* stored as it is.
C28_MarkupBounded ==
  \A n \in 1..Len(actions) :
    (actions[n].kind = "click") =>
      /\ StoredLength(actions[n].elementHTML) <= MaxLength
      /\ (fpc = "nav" /\ n = Len(actions)
            /\ StoredLength(currentElementHTML) <= MaxLength) =>
           (actions[n].elementHTML = currentElementHTML)

\* C29: in the Action list of a flow, and in the trace it writes, the step
\* of every click or terminal entry is the entry's position in the list
\* (counted from 0, as actions.length at the push), so the steps go up by
\* exactly one from each such entry to the next, whether or not the list
\* opens with a select-application entry.
C29_StepIsPosition ==
  \A t \in {actions} \cup { written[n] : n \in 1..Len(written) } :
    \A n \in 1..Len(t) :
      /\ (t[n].kind = "click") => (t[n].step = n - 1)
      /\ (n > 1 /\ t[n].kind = "click" /\ t[n - 1].kind = "click") =>
           (t[n].step = t[n - 1].step + 1)
      /\ (t[n].kind = "select") => (n = 1)

\* C29 witness: a flow whose select() found no value, so that no
\* select-application entry was recorded, has written a trace of a click
\* step 0 and a terminal step 1.
C29_Witness ==
  /\ selectFailed
  /\ Len(written) = 1
  /\ Len(written[1]) = 2
  /\ written[1][1].kind = "click" /\ written[1][1].step = 0
  /\ written[1][1].clickPosition # NullPosition
  /\ written[1][2].kind = "click" /\ written[1][2].step = 1
  /\ written[1][2].clickPosition = NullPosition

\* C30 as stated: no output file of a flow is written more than once: every
\* page_<n>.png is created once and not overwritten, and the flow's
\* click_actions_flow_<n>.json is written once.
C30_Original ==
  /\ \A n \in 1..Len(fileWrites) : fileWrites[n] <= 1
  /\ Len(written) <= 1

\* The entries of the list that were clicked: a position on screenshot n and
\* no note of a stop.
ClickedOn(acts, n) ==
  { m \in 1..Len(acts) : /\ acts[m].kind = "click"
                         /\ acts[m].clickPosition # NullPosition
                         /\ acts[m].screenshot = n
                         /\ acts[m].note = "" }

\* C30 amended: every page_<n>.png of a flow is created once, by the
\* capture, and written over at most once, by the marker overlay of the one
\* click decided on it; the flow's click_actions_flow_<n>.json is written
\* once; and no step writes two files or one file twice.
C30_FilesWrittenOnceButOverlay ==
  /\ [](\A n \in 1..Len(fileWrites) :
          /\ fileWrites[n] >= 1
          /\ fileWrites[n] <= 1 + Cardinality(ClickedOn(actions, n))
          /\ fileWrites[n] <= 2)
  /\ [](Len(written) <= 1 /\ Len(fileWrites) = screenshotIndex - 1)
  /\ [][ \/ fileWrites' = <<>>
         \/ /\ Len(fileWrites') >= Len(fileWrites)
            /\ Cardinality({ n \in 1..Len(fileWrites') :
                               fileWrites'[n] # (IF n <= Len(fileWrites)
                                                 THEN fileWrites[n] ELSE 0) }) <= 1
            /\ \A n \in 1..Len(fileWrites') :
                 fileWrites'[n] <= (IF n <= Len(fileWrites)
                                    THEN fileWrites[n] ELSE 0) + 1
       ]_vars

\* C30 witness: the second query of a flow, the first screenshot written over
\* by the overlay of the click and the second one captured once.
C30_Witness ==
  /\ fpc = "await"
  /\ queried = 2
  /\ fileWrites = <<2, 1>>

C32_BarrierCompletes ==
  (pc = "finally" /\ browser = "open" /\ promisesDeclared)
    => ENABLED (ClassificationSettles \/ CloseBrowser)

\* The assignments the variant of the running flow asks for: dropdown index
\* and value, groups in group order, the indices of a group in its order.
VariantAssignments ==
  Flatten([g \in 1..Len(mapping) |->
             [k \in 1..Len(mapping[g]) |-> <<mapping[g][k], selectCombination[g]>>]])

C34_NeverOnClosedPage ==
  [][(fpc = "select" /\ fpc' # "select") => ~staleSelects]_vars

\* C35: a reply that names a click point not clicked before, where the page
\* has no element, and a reply that reports no login button or no relevant
\* element, each append exactly one entry, with a null position, make no
\* click and leave the counter as it was, and end the loop: no query follows
\* in the flow and the entry stays the last of the trace.
C35_NoElementStops ==
  /\ [][(/\ fpc = "await"
         /\ received' = received + 1
         /\ \/ outcome'.tag = "NoElement"
            \/ /\ outcome'.tag = "Click"
               /\ ~AlreadyClicked(clickedPositions, positionKey(outcome'.x, outcome'.y))
               /\ currentElementHTML' = NullHTML) =>
          /\ actions' = Append(actions,
               ClickAction(Len(actions), NullPosition, NullHTML, screenshotPath, ""))
          /\ clicks' = clicks
          /\ clickCount' = clickCount
          /\ fileWrites' = fileWrites
          /\ shouldBreakLoop'
          /\ fpc' = "loop"]_vars
  /\ [][(shouldBreakLoop /\ fpc # "finally") =>
          /\ iterations' = iterations
          /\ clicks' = clicks
          /\ \/ Len(actions') = Len(actions)
             \/ actions = <<>>
             \/ LastHasPosition(actions)]_vars

\* C35 witness: after one click the oracle named a second point, no element
\* was found there, and the loop has been left with the null-position entry
\* last.
C35_Witness ==
  /\ fpc = "final"
  /\ outcome.tag = "Click"
  /\ currentElementHTML = NullHTML
  /\ clickCount = 1
  /\ Cardinality(clickedPositions) = 2
  /\ Len(actions) >= 2
  /\ ~LastHasPosition(actions)

\* C36: whenever the observer's listener has brought a new context to the
\* foreground, the observer's result is that context.
C36_ForegroundedIsReturned ==
  broughtToFront => observing = "new"

\* C37: when a performFlow call returns, no page of its flow is open: not
\* the page it opened, not a page switched to after a dropdown assignment or
\* a click, and none left behind by a failed close.
C37_NoPageOutlivesFlow ==
  [][(fpc = "finally" /\ fpc' = "idle" /\ i' = i + 1) =>
       (~cfSwitched /\ leakedPages = 0)]_vars

\* C38: a persisted trace holds exactly one entry with a null click position
\* and that entry is its last; in a flow a null-position entry is appended
\* only to a list that holds none, and nothing is appended after it.
C38_OneTerminalMarker ==
  /\ [](\A n \in 1..Len(written) :
          /\ Cardinality(NullSteps(written[n])) = 1
          /\ Len(written[n]) \in NullSteps(written[n]))
  /\ [][(Len(actions') > Len(actions)) =>
          /\ NullSteps(actions) = {}
          /\ Len(actions') = Len(actions) + 1]_vars
  /\ [][(NullSteps(actions) # {}) =>
          (actions' = actions \/ actions' = <<>>)]_vars

\* C38 witness: the oracle reported no login button after one click; the
\* loop's own null-position entry closes the written trace and the code
\* after the loop added none.
C38_Witness ==
  /\ fpc = "finally"
  /\ outcome.tag = "NoElement"
  /\ clicks = 1
  /\ Len(written) = 1
  /\ LET t == written[1]
     IN  /\ Len(t) = 3
         /\ t[3].clickPosition = NullPosition
         /\ t[3].note = ""
         /\ t[2].clickPosition # NullPosition

\* C39 as stated: a crawl that enumerated the inventory and has finished has
\* run at least one performFlow call.
C39_Original ==
  (pc = "done" /\ promisesDeclared) => flowsRun >= 1

\* The page has dropdowns and none exposes an option different from its
\* first.
NoOtherOption ==
  /\ Len(selectOptions) > 0
  /\ \A d \in 1..Len(selectOptions) :
       \A k \in 1..Len(selectOptions[d]) : selectOptions[d][k] = selectOptions[d][1]

\* C39: once the flows of a crawl that enumerated the inventory are over, at
\* least one performFlow call has been made, except when the page has
\* dropdowns none of which exposes an option different from its first: then
\* no call has been made.
C39_FlowUnlessNoVariant ==
  (pc \in {"finally", "closeClient", "done"} /\ promisesDeclared) =>
    (flowsRun >= 1 <=> ~NoOtherOption)

\* C39 witness: the crawl of a page whose one dropdown has one option has
\* finished without a performFlow call.
C39_Witness ==
  /\ pc = "done"
  /\ promisesDeclared
  /\ Len(selectOptions) = 1
  /\ Len(selectOptions[1]) = 1
  /\ flows = <<>>
  /\ flowsRun = 0

\* ------------------- the inline connection retry of runCrawler (crawler.js)

\* Most refusals explored for the inline retry.
MaxInlineRefusals == 5

\* The handlers an 'error' event runs: every listener client.on('error', ...)
\* has registered, none being ever removed.
ListenersAtError(n) == n

\* A crawl of the older runCrawler, before its first connection attempt.
InitInline ==
  /\ Init
  /\ pageSelects = <<>>

\* tryConnect, called by runCrawler or by a retry timer: client.connect and
\* one more client.on('error', ...) listener.
InlineTryConnect ==
  /\ \/ pc = "connect" /\ retryCount = 0 /\ UNCHANGED retryTimers
     \/ retryTimers > 0 /\ retryTimers' = retryTimers - 1
  /\ retryCount' = retryCount + 1
  /\ connecting' = TRUE
  /\ errorListeners' = errorListeners + 1
  /\ UNCHANGED <<pc, failures, now, attemptAt, failedAt, client, browser,
                 browserCloses, promisesDeclared, rejected, pageSelects, enumVars,
                 loopVars, classVars, fpc, flowVars>>
  /\ UNCHANGED ioVars

\* The connection is refused: the socket emits 'error' and every registered
\* listener runs setTimeout(tryConnect, retryInterval).
InlineSocketError ==
  /\ pc = "connect"
  /\ connecting
  /\ failures < MaxInlineRefusals
  /\ failures' = failures + 1
  /\ connecting' = FALSE
  /\ retryTimers' = retryTimers + ListenersAtError(errorListeners)
  /\ UNCHANGED <<pc, retryCount, now, attemptAt, failedAt, errorListeners, client,
                 browser, browserCloses, promisesDeclared, rejected, pageSelects,
                 enumVars, loopVars, classVars, fpc, flowVars>>
  /\ UNCHANGED ioVars

\* The connection is made: the connect callback resolves the promise
\* runCrawler awaits.  The 'error' listeners stay registered.
InlineConnected ==
  /\ pc = "connect"
  /\ connecting
  /\ connecting' = FALSE
  /\ client' = "connected"
  /\ pc' = "launch"
  /\ UNCHANGED <<retryCount, failures, now, attemptAt, failedAt, errorListeners,
                 retryTimers, browser, browserCloses, promisesDeclared, rejected,
                 pageSelects, enumVars, loopVars, classVars, fpc, flowVars>>
  /\ UNCHANGED ioVars

NextInline == InlineTryConnect \/ InlineSocketError \/ InlineConnected

SpecInline == InitInline /\ [][NextInline]_vars

\* C40: in the inline retry a failed attempt schedules one retry: at most
\* one retry timer is pending at any time, and no more attempts have been
\* made than one more than the refusals so far.
C40_OneRetryPerFailure ==
  /\ retryTimers <= 1
  /\ retryCount <= failures + 1

====
